---- MODULE Spec2Model ----
(***************************************************************************)
(* spectacular: the layered fixture and hook orchestration.                *)
(*                                                                         *)
(* Part I models the runtime engine, spectacular::runner::run              *)
(* (crates/spectacular/src/runner.rs): the registry collected by inventory,*)
(* the seeded plan, and the nested suite/group/test hook loop.             *)
(*                                                                         *)
(* Part II models the test functions generated by spec! / #[test_suite]    *)
(* (crates/spectacular-macros), run by the harness on concurrent threads:  *)
(* the once-guarded befores, the per-test hooks around catch_unwind, and   *)
(* the atomic countdown that calls after.                                  *)
(*                                                                         *)
(* Part III models the cargo subcommand, cargo_spectacular::runner::run    *)
(* (crates/cargo-spectacular/src/runner.rs): the child `cargo test`, the   *)
(* loop over the lines of its event stream, and the exit code of main.     *)
(*                                                                         *)
(* Part IV models __internal::catch_unwind_future                          *)
(* (crates/spectacular/src/lib.rs) polled by an executor.                  *)
(*                                                                         *)
(* Part V models the formatters of the cargo subcommand                    *)
(* (crates/cargo-spectacular/src/formatter): the pride, boring and default *)
(* formatter as the callbacks of the Formatter trait, called by the loop   *)
(* of Part III or by any other holder of the trait object.                 *)
(***************************************************************************)
EXTENDS Integers, Sequences, FiniteSets, Bags, TLC

\* ------------------------------------------------------------------ bounds
MaxTests == 3           \* test cases registered in all
MaxSuiteHooks == 2      \* suite hooks registered in all
MaxThreads == 3         \* generated test functions in all
MaxHookPanics == 1      \* hook bodies of the generated code that panic in one process
MaxLines == 3           \* lines the child process writes to its stdout
MaxPending == 4         \* polls of a future that return Pending before it ends
MaxCols == 2            \* the widest terminal, in columns
MaxEvents == 4          \* callbacks a formatter receives from a caller other than run()

GroupNames == {1, 2}    \* module names, in their lexicographic order
TestNames == 1..MaxTests
Seeds == {0, 1}

\* ---------------------------------------------------------------- registry
VARIABLES
    suite_hooks,    \* inventory::iter::<SuiteHook>: the hook kinds, in registration order
    groups,         \* inventory::iter::<TestGroup>: the registered TestGroup records
    tests,          \* inventory::iter::<TestCase>: the registered TestCase records
    TEST_SEED       \* the environment variable: NotPresent, or Var(<<its bytes>>)

\* ------------------------------------------------------------- runner::run
VARIABLES
    pc,             \* the position of run()
    seed,           \* let seed
    rng,            \* the state of the seeded generator
    group_map,      \* name -> [group: index into groups or 0 (None), tests: test indices]
    group_names,    \* the shuffled group order
    gi,             \* position of `for group_name in &group_names`
    ti,             \* position of `for test in tests`
    hi,             \* position of the current suite-hook loop
    outcome,        \* the outcome of the test in flight
    results,        \* let mut results
    returned,       \* the SuiteResult run() returned, or NoResult
    log,            \* every hook and test body invoked, in order
    out             \* what report:: has printed: the header, then the summary

\* ---------------------------------------- code generated by spec! / #[test_suite]
VARIABLES
    gcfg,           \* module -> what the module declares (suite;, before, after, ...)
    threads,        \* module -> the bag of its test functions, each a record
                    \*   [status, at, in_once, caught, fire, did]
    suite_once,     \* __spectacular_suite::before's static __ONCE
    before_once,    \* module -> its __SPEC_BEFORE / __SPEC_BEFORE_CTX
    remaining,      \* module -> its __SPEC_AFTER_REMAINING
    hook_panics     \* how many hook bodies have panicked so far

\* ------------------------------------------- cargo_spectacular::runner::run
VARIABLES
    cli_pc,         \* the position of main and run()
    stdout,         \* the lines the child writes to its piped stdout
    status,         \* whether the child's ExitStatus is a success
    read,           \* how many lines `for line in reader.lines()` has consumed
    any_failure,    \* let mut any_failure
    calls,          \* the formatter callbacks made so far, each with its line number
    cli_ret,        \* what run() returned: "none", "SUCCESS", "FAILURE" or "Err"
    exit_code       \* the ExitCode main returned: "none", "SUCCESS" or "FAILURE"

\* --------------------------------------------- __internal::catch_unwind_future
VARIABLES
    fut,            \* the wrapped future f: what each of its polls does, in order
    fut_polls,      \* how often the wrapped future has been polled
    cuf,            \* the future catch_unwind_future returned: the result of its last poll
    cuf_polls,      \* how often the executor has polled it
    after_await     \* what the awaiting function did after the .await: "none", or
                    \* the teardown it ran on the Result it was handed

\* ------------------------------------------------ cargo_spectacular::formatter
VARIABLES
    formatter,      \* the formatter create() returned: "pride", "boring" or "default"
    cols,           \* self.cols: terminal::size() at creation, or 80
    dot_count,      \* self.dot_count
    failures,       \* self.failures: the captured FailedTest records
    w,              \* what the formatter has written to its writer, as tokens
    fmt_ret,        \* the result of the last callback: "none", "Ok", "Err" or "panic"
    received        \* every callback the formatter has received, in order

cliVars == <<cli_pc, stdout, status, read, any_failure, calls, cli_ret, exit_code>>
futVars == <<fut, fut_polls, cuf, cuf_polls, after_await>>
fmtVars == <<formatter, cols, dot_count, failures, w, fmt_ret, received>>
auxVars == <<cliVars, futVars, fmtVars>>
regVars == <<suite_hooks, groups, tests, TEST_SEED>>
genVars == <<gcfg, threads, suite_once, before_once, remaining, hook_panics>>
runVars == <<pc, seed, rng, group_map, group_names, gi, ti, hi, outcome, results, returned, log, out>>
vars == <<regVars, runVars, genVars, cliVars, futVars, fmtVars>>

\* ------------------------------------------------------------------- types
SuiteHookKind == {"Before", "After", "BeforeEach", "AfterEach"}

TestGroup ==
    [name : GroupNames, before : BOOLEAN, after : BOOLEAN,
     before_each : BOOLEAN, after_each : BOOLEAN]

TestCase == [name : TestNames, module : GroupNames]

Passed == [tag |-> "Passed", at |-> 0, text |-> ""]

\* what the body of a test function panics with, when it panics: a &str, a
\* String, or a payload of any other type
Payload(name) ==
    CASE name % 3 = 1 -> [type |-> "&str", text |-> "a"]
      [] name % 3 = 2 -> [type |-> "String", text |-> "b"]
      [] OTHER -> [type |-> "other", text |-> "c"]

\* the downcast_ref chain of lines 103-109
Describe(e) ==
    IF e.type = "&str" THEN e.text
    ELSE IF e.type = "String" THEN e.text
    ELSE "test panicked"

\* a Failed message that carries the location of the test registered first
FailedAtFirst(t) ==
    [tag |-> "Failed", at |-> 1, text |-> Describe(Payload(tests[t].name))]

\* TestOutcome::Failed(format!("{}\n  at {}:{}", s, test.file, test.line)): the
\* description and the location of test t (its file and line, one per test)
Failed(t) ==
    [tag |-> "Failed", at |-> t, text |-> Describe(Payload(tests[t].name))]

NoResult == [results |-> <<>>, seed |-> -1]

\* a hook or test body was invoked: its kind, the group and test it ran for, the
\* registration it came from, and whether it panicked
Ev(k, g, t, h, p) == [k |-> k, g |-> g, t |-> t, h |-> h, p |-> p]

\* ------------------------------------------------------ SuiteResult (types.rs)
\* SuiteResult::passed, ::failed, ::all_passed
passed(r) ==
    Cardinality({i \in 1..Len(r.results) : r.results[i].outcome.tag = "Passed"})

failed(r) ==
    Cardinality({i \in 1..Len(r.results) : r.results[i].outcome.tag = "Failed"})

\* all_passed that wants at least one result
all_passed_of_some(r) ==
    /\ r.results # <<>>
    /\ \A i \in 1..Len(r.results) : r.results[i].outcome.tag = "Passed"

all_passed(r) == \A i \in 1..Len(r.results) : r.results[i].outcome.tag = "Passed"

\* ------------------------------------------------------------- report.rs
\* report::print_header(seed): the line carrying "(seed: {seed})"
print_header(s) == [what |-> "header", seed |-> s]

\* report::print_summary(result): the counts of the Results line, and the Seed
\* line "{seed} (reproduce with TEST_SEED={seed})"
print_summary(r) ==
    [what |-> "summary", passed |-> passed(r), failed |-> failed(r),
     total |-> Len(r.results), seed |-> r.seed, reproduce |-> r.seed]

\* ----------------------------------------------------------------- helpers
RECURSIVE SeqsUpTo(_, _)
SeqsUpTo(n, S) ==
    IF n = 0 THEN {<<>>}
    ELSE LET shorter == SeqsUpTo(n - 1, S)
         IN  shorter \cup {Append(s, x) : s \in {q \in shorter : Len(q) = n - 1}, x \in S}

Range(s) == {s[i] : i \in 1..Len(s)}

Swap(s, i, j) == [s EXCEPT ![i] = s[j], ![j] = s[i]]

Reverse(s) == [i \in 1..Len(s) |-> s[Len(s) + 1 - i]]

Indices(s) == [i \in 1..Len(s) |-> i]

\* the orders in which a set can be iterated
Orders(S) == {s \in [1..Cardinality(S) -> S] : Range(s) = S}

\* ------------------------------------------------- the seed (runner.rs 12-17)
\* the environment variable TEST_SEED: absent, or present with a value of bytes;
\* a byte is one of the characters below or "0xFF", which is not valid Unicode
NotPresent == [present |-> FALSE, bytes |-> <<>>]

Var(bytes) == [present |-> TRUE, bytes |-> bytes]

\* std::env::var: Ok(the value) when the variable is present and valid Unicode,
\* Err(NotPresent) or Err(NotUnicode) otherwise
EnvVar(v) ==
    IF v.present /\ (\A i \in 1..Len(v.bytes) : v.bytes[i] # "0xFF")
    THEN [ok |-> TRUE, s |-> v.bytes]
    ELSE [ok |-> FALSE, s |-> <<>>]

Digit == [c \in {"0", "1", "2", "3", "4", "5", "6", "7", "8", "9"} |->
            CASE c = "0" -> 0 [] c = "1" -> 1 [] c = "2" -> 2 [] c = "3" -> 3
              [] c = "4" -> 4 [] c = "5" -> 5 [] c = "6" -> 6 [] c = "7" -> 7
              [] c = "8" -> 8 [] c = "9" -> 9]

RECURSIVE DigitsValue(_, _)
DigitsValue(s, acc) ==
    IF s = <<>> THEN acc ELSE DigitsValue(Tail(s), 10 * acc + Digit[Head(s)])

\* str::parse::<u64>: an optional '+', then one or more decimal digits; -1 stands
\* for Err (the strings of the model are too short to reach 2^64)
ParseU64(s) ==
    LET body == IF s # <<>> /\ Head(s) = "+" THEN Tail(s) ELSE s
    IN  IF body # <<>> /\ (\A i \in 1..Len(body) : body[i] \in DOMAIN Digit)
        THEN DigitsValue(body, 0)
        ELSE -1

\* ------------------------------------------- the generator (rand::rngs::StdRng)
SeedFromU64(s) == s % 16

NextRng(r) == (5 * r + 3) % 16

\* an index below n drawn from generator state r
Draw(r, n) == (r \div 2) % n

\* SliceRandom::shuffle: for i in (1..len).rev() { swap(i, gen_index(rng, i + 1)) }
RECURSIVE ShuffleFrom(_, _, _)
ShuffleFrom(s, i, r) ==
    IF i < 2 THEN [seq |-> s, rng |-> r]
    ELSE LET r1 == NextRng(r)
         IN  ShuffleFrom(Swap(s, i, 1 + Draw(r1, i)), i - 1, r1)

Shuffle(s, r) == ShuffleFrom(s, Len(s), r)

\* slice::sort / sort_by_key: stable, ascending in key[x]
RECURSIVE InsertSorted(_, _, _)
InsertSorted(s, x, key) ==
    IF s = <<>> THEN <<x>>
    ELSE IF key[x] < key[Head(s)] THEN <<x>> \o s
    ELSE <<Head(s)>> \o InsertSorted(Tail(s), x, key)

RECURSIVE SortByKey(_, _)
SortByKey(s, key) ==
    IF s = <<>> THEN <<>>
    ELSE InsertSorted(SortByKey(SubSeq(s, 1, Len(s) - 1), key), s[Len(s)], key)

\* ------------------------------------------ the group map (runner.rs 23-36)
\* entry(name).or_insert_with(|| (None, Vec::new()))
OrInsert(map, n) ==
    IF n \in DOMAIN map THEN map
    ELSE [k \in DOMAIN map \cup {n} |->
            IF k = n THEN [group |-> 0, tests |-> <<>>] ELSE map[k]]

\* for group in &groups { ... .0 = Some(group) }
RECURSIVE InsertGroups(_, _, _)
InsertGroups(map, gs, i) ==
    IF i > Len(gs) THEN map
    ELSE LET m == OrInsert(map, gs[i].name)
         IN  InsertGroups([m EXCEPT ![gs[i].name].group = i], gs, i + 1)

\* the tests collected only for the modules that have a TestGroup registration
RECURSIVE InsertTestsOfRegistered(_, _, _)
InsertTestsOfRegistered(map, ts, i) ==
    IF i > Len(ts) THEN map
    ELSE IF ts[i].module \in DOMAIN map
         THEN InsertTestsOfRegistered([map EXCEPT ![ts[i].module].tests = Append(@, i)],
                                      ts, i + 1)
         ELSE InsertTestsOfRegistered(map, ts, i + 1)

\* for test in &tests { ... .1.push(test) }
RECURSIVE InsertTests(_, _, _)
InsertTests(map, ts, i) ==
    IF i > Len(ts) THEN map
    ELSE LET m == OrInsert(map, ts[i].module)
         IN  InsertTests([m EXCEPT ![ts[i].module].tests = Append(@, i)], ts, i + 1)

EmptyMap == [k \in {} |-> 0]

BuildGroupMap(gs, ts) == InsertTests(InsertGroups(EmptyMap, gs, 1), ts, 1)

\* for (_name, (_group, tests)) in group_map.iter_mut() { sort_by_key; shuffle },
\* visiting the entries in the map's iteration order
RECURSIVE ShuffleTests(_, _, _, _)
ShuffleTests(map, order, i, r) ==
    IF i > Len(order) THEN [map |-> map, rng |-> r]
    ELSE LET n == order[i]
             sorted == SortByKey(map[n].tests, [t \in 1..Len(tests) |-> tests[t].name])
             sh == Shuffle(sorted, r)
         IN  ShuffleTests([map EXCEPT ![n].tests = sh.seq], order, i + 1, sh.rng)

\* ------------------------------------------ the suite hooks (runner.rs 47-66)
HooksOfKind(kind) == SelectSeq(Indices(suite_hooks), LAMBDA i : suite_hooks[i] = kind)

suite_befores == HooksOfKind("Before")

suite_afters == HooksOfKind("After")

suite_before_eachs == HooksOfKind("BeforeEach")

\* the suite after_each hooks taken in the reverse of their registration order
suite_after_eachs_rev == Reverse(HooksOfKind("AfterEach"))

suite_after_eachs == HooksOfKind("AfterEach")

\* the entry of the group the group loop is at
CurName == group_names[gi]

CurGroup == group_map[CurName].group

\* every group runs the tests of all groups
CurTestsOfAllGroups == [i \in 1..Len(tests) |-> i]

CurTests == group_map[CurName].tests

CurTest == CurTests[ti]

HasHook(g, kind) ==
    /\ g # 0
    /\ CASE kind = "before" -> groups[g].before
         [] kind = "after" -> groups[g].after
         [] kind = "before_each" -> groups[g].before_each
         [] kind = "after_each" -> groups[g].after_each

\* ----------------------------------------------------------------- registry
\* the declarations inventory collected before run() starts
TestsOf(count) ==
    LET of(m) == [i \in 1..count[m] |-> [name |-> count[m] + 1 - i, module |-> m]]
    IN  of(1) \o of(2)

HookSets == {<<FALSE, FALSE, FALSE, FALSE>>, <<TRUE, TRUE, TRUE, TRUE>>,
             <<TRUE, FALSE, FALSE, TRUE>>, <<FALSE, TRUE, TRUE, FALSE>>}

AllHooks(n) ==
    [name |-> n, before |-> TRUE, after |-> TRUE, before_each |-> TRUE, after_each |-> TRUE]

\* TestGroup registrations: no two for one name, every hook either declared or not
GroupRegs ==
    {s \in SeqsUpTo(Cardinality(GroupNames), TestGroup) :
        /\ \A i, j \in 1..Len(s) : i < j => s[i].name < s[j].name
        /\ \A i \in 1..Len(s) :
              <<s[i].before, s[i].after, s[i].before_each, s[i].after_each>> \in HookSets}

BasicGroupRegs == {<<>>, <<AllHooks(1), AllHooks(2)>>}

\* up to MaxSuiteHooks suite hooks of any kinds, or two befores and two afters
SuiteRegs ==
    SeqsUpTo(MaxSuiteHooks, SuiteHookKind) \cup {<<"Before", "Before", "After", "After">>}

BasicSuiteRegs == {<<>>, <<"Before", "BeforeEach", "AfterEach", "After">>}

RegistryInit ==
    /\ \/ suite_hooks \in SuiteRegs /\ groups \in BasicGroupRegs
       \/ suite_hooks \in BasicSuiteRegs /\ groups \in GroupRegs
    /\ \E count \in [GroupNames -> 0..MaxTests] :
          /\ count[1] + count[2] <= MaxTests
          /\ tests = TestsOf(count)
    /\ TEST_SEED \in {NotPresent, Var(<<"1">>), Var(<<"x">>)}

RunStart(at) ==
    /\ pc = at
    /\ seed = -1
    /\ rng = 0
    /\ group_map = EmptyMap
    /\ group_names = <<>>
    /\ gi = 1
    /\ ti = 1
    /\ hi = 1
    /\ outcome = Passed
    /\ results = <<>>
    /\ returned = NoResult
    /\ log = <<>>
    /\ out = <<>>

\* ------------------------------------------------------------- runner::run
\* lines 12-17: the seed, from TEST_SEED or freshly drawn
ReadSeed ==
    /\ pc = "seed"
    /\ \/ /\ ~EnvVar(TEST_SEED).ok
          /\ \E s \in Seeds : seed' = s /\ rng' = SeedFromU64(s)
          /\ pc' = "collect"
       \/ /\ EnvVar(TEST_SEED).ok
          /\ ParseU64(EnvVar(TEST_SEED).s) >= 0
          /\ seed' = ParseU64(EnvVar(TEST_SEED).s)
          /\ rng' = SeedFromU64(ParseU64(EnvVar(TEST_SEED).s))
          /\ pc' = "collect"
       \/ /\ EnvVar(TEST_SEED).ok
          /\ ParseU64(EnvVar(TEST_SEED).s) < 0
          /\ pc' = "panicked"
          /\ UNCHANGED <<seed, rng>>
    /\ UNCHANGED <<regVars, genVars, auxVars, group_map, group_names, gi, ti, hi, outcome, results, returned, log, out>>

\* lines 19-36: collect the registry into the group map
Collect ==
    /\ pc = "collect"
    /\ group_map' = BuildGroupMap(groups, tests)
    /\ pc' = "plan"
    /\ UNCHANGED <<regVars, genVars, auxVars, seed, rng, group_names, gi, ti, hi, outcome, results, returned, log, out>>

\* the group names shuffled as the map yields them, without the sort
PlannedUnsorted(map, order, r) ==
    LET names == Shuffle(order, r)
        shuffled == ShuffleTests(map, order, 1, names.rng)
    IN  [group_names |-> names.seq, map |-> shuffled.map, rng |-> shuffled.rng]

\* lines 38-45: group_names sorted and shuffled, then the tests of every entry
\* sorted by name and shuffled, the entries visited in the order `order`
Planned(map, order, r) ==
    LET names == Shuffle(SortByKey(order, [n \in GroupNames |-> n]), r)
        shuffled == ShuffleTests(map, order, 1, names.rng)
    IN  [group_names |-> names.seq, map |-> shuffled.map, rng |-> shuffled.rng]

\* lines 38-68: the group order, then every group's test order (`order` is the
\* iteration order of the HashMap), and report::print_header(seed)
Plan ==
    /\ pc = "plan"
    /\ \E order \in Orders(DOMAIN group_map) :
          LET planned == Planned(group_map, order, rng)
          IN  /\ group_names' = planned.group_names
              /\ group_map' = planned.map
              /\ rng' = planned.rng
    /\ out' = Append(out, print_header(seed))
    /\ pc' = "suite_before"
    /\ hi' = 1
    /\ UNCHANGED <<regVars, genVars, auxVars, seed, gi, ti, outcome, results, returned, log>>

\* the suite before loop leaving after its first hook
SuiteBeforeFirstOnly ==
    /\ pc = "suite_before"
    /\ \/ /\ hi <= Len(suite_befores) /\ hi <= 1
          /\ \E p \in BOOLEAN :
                /\ log' = Append(log, Ev("suite_before", 0, 0, suite_befores[hi], p))
                /\ IF p THEN pc' = "panicked" /\ UNCHANGED hi
                        ELSE hi' = hi + 1 /\ UNCHANGED pc
          /\ UNCHANGED <<gi, results>>
       \/ /\ hi > Len(suite_befores) \/ hi > 1
          /\ results' = <<>>
          /\ gi' = 1
          /\ pc' = "group_before"
          /\ UNCHANGED <<hi, log>>
    /\ UNCHANGED <<regVars, genVars, auxVars, seed, rng, group_map, group_names, ti, outcome, returned, out>>

\* lines 70-74: for hook in &suite_befores { hook() }
SuiteBefore ==
    /\ pc = "suite_before"
    /\ \/ /\ hi <= Len(suite_befores)
          /\ \E p \in BOOLEAN :
                /\ log' = Append(log, Ev("suite_before", 0, 0, suite_befores[hi], p))
                /\ IF p THEN pc' = "panicked" /\ UNCHANGED hi
                        ELSE hi' = hi + 1 /\ UNCHANGED pc
          /\ UNCHANGED <<gi, results>>
       \/ /\ hi > Len(suite_befores)
          /\ results' = <<>>
          /\ gi' = 1
          /\ pc' = "group_before"
          /\ UNCHANGED <<hi, log>>
    /\ UNCHANGED <<regVars, genVars, auxVars, seed, rng, group_map, group_names, ti, outcome, returned, out>>

\* a group without tests passed over: neither its before nor its after is called
GroupBeforeSkipsEmpty ==
    /\ pc = "group_before"
    /\ \/ /\ gi > Len(group_names)
          /\ pc' = "suite_after"
          /\ hi' = 1
          /\ UNCHANGED <<gi, ti, log>>
       \/ /\ gi <= Len(group_names)
          /\ CurTests = <<>>
          /\ gi' = gi + 1
          /\ UNCHANGED <<pc, ti, hi, log>>
       \/ /\ gi <= Len(group_names)
          /\ CurTests # <<>>
          /\ HasHook(CurGroup, "before")
          /\ \E p \in BOOLEAN :
                /\ log' = Append(log, Ev("group_before", CurName, 0, CurGroup, p))
                /\ IF p THEN pc' = "panicked" /\ UNCHANGED <<ti, hi>>
                        ELSE pc' = "suite_before_each" /\ ti' = 1 /\ hi' = 1
          /\ UNCHANGED gi
       \/ /\ gi <= Len(group_names)
          /\ CurTests # <<>>
          /\ ~HasHook(CurGroup, "before")
          /\ pc' = "suite_before_each" /\ ti' = 1 /\ hi' = 1
          /\ UNCHANGED <<gi, log>>
    /\ UNCHANGED <<regVars, genVars, auxVars, seed, rng, group_map, group_names, outcome, results, returned, out>>

\* lines 76-85: the head of the group loop, and the group's before
GroupBefore ==
    /\ pc = "group_before"
    /\ \/ /\ gi > Len(group_names)
          /\ pc' = "suite_after"
          /\ hi' = 1
          /\ UNCHANGED <<ti, log>>
       \/ /\ gi <= Len(group_names)
          /\ HasHook(CurGroup, "before")
          /\ \E p \in BOOLEAN :
                /\ log' = Append(log, Ev("group_before", CurName, 0, CurGroup, p))
                /\ IF p THEN pc' = "panicked" /\ UNCHANGED <<ti, hi>>
                        ELSE pc' = "suite_before_each" /\ ti' = 1 /\ hi' = 1
       \/ /\ gi <= Len(group_names)
          /\ ~HasHook(CurGroup, "before")
          /\ pc' = "suite_before_each" /\ ti' = 1 /\ hi' = 1
          /\ UNCHANGED log
    /\ UNCHANGED <<regVars, genVars, auxVars, seed, rng, group_map, group_names, gi, outcome, results, returned, out>>

\* lines 87-92: the head of the test loop, and for hook in &suite_before_eachs { hook() }
SuiteBeforeEach ==
    /\ pc = "suite_before_each"
    /\ \/ /\ ti > Len(CurTests)
          /\ pc' = "group_after"
          /\ UNCHANGED <<hi, log>>
       \/ /\ ti <= Len(CurTests)
          /\ hi <= Len(suite_before_eachs)
          /\ \E p \in BOOLEAN :
                /\ log' = Append(log, Ev("suite_before_each", CurName, CurTest,
                                         suite_before_eachs[hi], p))
                /\ IF p THEN pc' = "panicked" /\ UNCHANGED hi
                        ELSE hi' = hi + 1 /\ UNCHANGED pc
       \/ /\ ti <= Len(CurTests)
          /\ hi > Len(suite_before_eachs)
          /\ pc' = "before_each"
          /\ UNCHANGED <<hi, log>>
    /\ UNCHANGED <<regVars, genVars, auxVars, seed, rng, group_map, group_names, gi, ti, outcome, results, returned, out>>

\* the group's before called with its before_each, once per test
BeforeEachCallsBefore ==
    /\ pc = "before_each"
    /\ \/ /\ HasHook(CurGroup, "before_each")
          /\ \E p \in BOOLEAN :
                /\ log' = Append(IF HasHook(CurGroup, "before")
                                 THEN Append(log, Ev("group_before", CurName, 0, CurGroup, FALSE))
                                 ELSE log,
                                 Ev("group_before_each", CurName, CurTest, CurGroup, p))
                /\ pc' = IF p THEN "panicked" ELSE "test"
       \/ /\ ~HasHook(CurGroup, "before_each")
          /\ pc' = "test"
          /\ UNCHANGED log
    /\ UNCHANGED <<regVars, genVars, auxVars, seed, rng, group_map, group_names, gi, ti, hi, outcome, results, returned, out>>

\* lines 94-98: the group's before_each
BeforeEach ==
    /\ pc = "before_each"
    /\ \/ /\ HasHook(CurGroup, "before_each")
          /\ \E p \in BOOLEAN :
                /\ log' = Append(log, Ev("group_before_each", CurName, CurTest, CurGroup, p))
                /\ pc' = IF p THEN "panicked" ELSE "test"
       \/ /\ ~HasHook(CurGroup, "before_each")
          /\ pc' = "test"
          /\ UNCHANGED log
    /\ UNCHANGED <<regVars, genVars, auxVars, seed, rng, group_map, group_names, gi, ti, hi, outcome, results, returned, out>>

\* the test body called without catch_unwind
TestBodyUncaught ==
    /\ pc = "test"
    /\ \E p \in BOOLEAN :
          /\ log' = Append(log, Ev("test_body", CurName, CurTest, 0, p))
          /\ pc' = IF p THEN "panicked" ELSE "after_each"
    /\ outcome' = Passed
    /\ UNCHANGED <<regVars, genVars, auxVars, seed, rng, group_map, group_names, gi, ti, hi, results, returned, out>>

\* lines 100-112: the test body under catch_unwind
TestBody ==
    /\ pc = "test"
    /\ \E p \in BOOLEAN :
          /\ log' = Append(log, Ev("test_body", CurName, CurTest, 0, p))
          /\ outcome' = IF p THEN Failed(CurTest) ELSE Passed
    /\ pc' = "after_each"
    /\ UNCHANGED <<regVars, genVars, auxVars, seed, rng, group_map, group_names, gi, ti, hi, results, returned, out>>

\* the group's after_each called only when the body did not panic
AfterEachSkippedOnPanic ==
    /\ pc = "after_each"
    /\ \/ /\ HasHook(CurGroup, "after_each") /\ outcome = Passed
          /\ \E p \in BOOLEAN :
                /\ log' = Append(log, Ev("group_after_each", CurName, CurTest, CurGroup, p))
                /\ IF p THEN pc' = "panicked" /\ UNCHANGED hi
                        ELSE pc' = "suite_after_each" /\ hi' = 1
       \/ /\ ~(HasHook(CurGroup, "after_each") /\ outcome = Passed)
          /\ pc' = "suite_after_each" /\ hi' = 1
          /\ UNCHANGED log
    /\ UNCHANGED <<regVars, genVars, auxVars, seed, rng, group_map, group_names, gi, ti, outcome, results, returned, out>>

\* lines 114-118: the group's after_each
AfterEach ==
    /\ pc = "after_each"
    /\ \/ /\ HasHook(CurGroup, "after_each")
          /\ \E p \in BOOLEAN :
                /\ log' = Append(log, Ev("group_after_each", CurName, CurTest, CurGroup, p))
                /\ IF p THEN pc' = "panicked" /\ UNCHANGED hi
                        ELSE pc' = "suite_after_each" /\ hi' = 1
       \/ /\ ~HasHook(CurGroup, "after_each")
          /\ pc' = "suite_after_each" /\ hi' = 1
          /\ UNCHANGED log
    /\ UNCHANGED <<regVars, genVars, auxVars, seed, rng, group_map, group_names, gi, ti, outcome, results, returned, out>>

\* lines 120-122: for hook in &suite_after_eachs { hook() }
SuiteAfterEach ==
    /\ pc = "suite_after_each"
    /\ \/ /\ hi <= Len(suite_after_eachs)
          /\ \E p \in BOOLEAN :
                /\ log' = Append(log, Ev("suite_after_each", CurName, CurTest,
                                         suite_after_eachs[hi], p))
                /\ IF p THEN pc' = "panicked" /\ UNCHANGED hi
                        ELSE hi' = hi + 1 /\ UNCHANGED pc
       \/ /\ hi > Len(suite_after_eachs)
          /\ pc' = "push"
          /\ UNCHANGED <<hi, log>>
    /\ UNCHANGED <<regVars, genVars, auxVars, seed, rng, group_map, group_names, gi, ti, outcome, results, returned, out>>

\* lines 124-135: results.push(TestResult { .. }), and on to the next test
PushResult ==
    /\ pc = "push"
    /\ results' = Append(results, [test |-> CurTest, outcome |-> outcome])
    /\ ti' = ti + 1
    /\ hi' = 1
    /\ pc' = "suite_before_each"
    /\ UNCHANGED <<regVars, genVars, auxVars, seed, rng, group_map, group_names, gi, outcome, returned, log, out>>

\* the group's after called only when no test of the group failed
GroupAfterUnlessFailed ==
    LET clean == \A i \in 1..Len(results) :
                     tests[results[i].test].module = CurName =>
                         results[i].outcome.tag = "Passed"
    IN  /\ pc = "group_after"
        /\ \/ /\ HasHook(CurGroup, "after") /\ clean
              /\ \E p \in BOOLEAN :
                    /\ log' = Append(log, Ev("group_after", CurName, 0, CurGroup, p))
                    /\ IF p THEN pc' = "panicked" /\ UNCHANGED gi
                            ELSE pc' = "group_before" /\ gi' = gi + 1
           \/ /\ ~(HasHook(CurGroup, "after") /\ clean)
              /\ pc' = "group_before" /\ gi' = gi + 1
              /\ UNCHANGED log
        /\ UNCHANGED <<regVars, genVars, auxVars, seed, rng, group_map, group_names, ti, hi, outcome, results, returned, out>>

\* the suite after hooks called inside the group loop, when the first group ends
GroupAfterThenSuiteAfter ==
    /\ pc = "group_after"
    /\ \/ /\ HasHook(CurGroup, "after")
          /\ \E p \in BOOLEAN :
                /\ log' = Append(log, Ev("group_after", CurName, 0, CurGroup, p))
                /\ pc' = IF p THEN "panicked" ELSE "suite_after"
       \/ /\ ~HasHook(CurGroup, "after")
          /\ pc' = "suite_after"
          /\ UNCHANGED log
    /\ gi' = Len(group_names) + 1
    /\ hi' = 1
    /\ UNCHANGED <<regVars, genVars, auxVars, seed, rng, group_map, group_names, ti, outcome, results, returned, out>>

\* lines 137-144: the group's after, and on to the next group
GroupAfter ==
    /\ pc = "group_after"
    /\ \/ /\ HasHook(CurGroup, "after")
          /\ \E p \in BOOLEAN :
                /\ log' = Append(log, Ev("group_after", CurName, 0, CurGroup, p))
                /\ IF p THEN pc' = "panicked" /\ UNCHANGED gi
                        ELSE pc' = "group_before" /\ gi' = gi + 1
       \/ /\ ~HasHook(CurGroup, "after")
          /\ pc' = "group_before" /\ gi' = gi + 1
          /\ UNCHANGED log
    /\ UNCHANGED <<regVars, genVars, auxVars, seed, rng, group_map, group_names, ti, hi, outcome, results, returned, out>>

\* the suite after hooks called in registration order
SuiteAfterInOrder ==
    /\ pc = "suite_after"
    /\ \/ /\ hi <= Len(suite_afters)
          /\ \E p \in BOOLEAN :
                /\ log' = Append(log, Ev("suite_after", 0, 0, suite_afters[hi], p))
                /\ IF p THEN pc' = "panicked" /\ UNCHANGED hi
                        ELSE hi' = hi + 1 /\ UNCHANGED pc
       \/ /\ hi > Len(suite_afters)
          /\ pc' = "finish"
          /\ UNCHANGED <<hi, log>>
    /\ UNCHANGED <<regVars, genVars, auxVars, seed, rng, group_map, group_names, gi, ti, outcome, results, returned, out>>

\* lines 146-148: for hook in suite_afters.iter().rev() { hook() }
SuiteAfter ==
    /\ pc = "suite_after"
    /\ \/ /\ hi <= Len(suite_afters)
          /\ \E p \in BOOLEAN :
                /\ log' = Append(log, Ev("suite_after", 0, 0, Reverse(suite_afters)[hi], p))
                /\ IF p THEN pc' = "panicked" /\ UNCHANGED hi
                        ELSE hi' = hi + 1 /\ UNCHANGED pc
       \/ /\ hi > Len(suite_afters)
          /\ pc' = "finish"
          /\ UNCHANGED <<hi, log>>
    /\ UNCHANGED <<regVars, genVars, auxVars, seed, rng, group_map, group_names, gi, ti, outcome, results, returned, out>>

\* the SuiteResult carrying the state of the generator in place of the seed
FinishReportsGenerator ==
    /\ pc = "finish"
    /\ returned' = [results |-> results, seed |-> rng]
    /\ out' = Append(out, print_summary([results |-> results, seed |-> rng]))
    /\ pc' = "returned"
    /\ UNCHANGED <<regVars, genVars, auxVars, seed, rng, group_map, group_names, gi, ti, hi, outcome, results, log>>

\* lines 150-159: the SuiteResult, report::print_summary, and the return
Finish ==
    /\ pc = "finish"
    /\ returned' = [results |-> results, seed |-> seed]
    /\ out' = Append(out, print_summary([results |-> results, seed |-> seed]))
    /\ pc' = "returned"
    /\ UNCHANGED <<regVars, genVars, auxVars, seed, rng, group_map, group_names, gi, ti, hi, outcome, results, log>>

\* ------------------------------------ code generated by spec! / #[test_suite]
\* what a module declares: `suite;`, a before (fire-and-forget under Once, or
\* returning a context under OnceLock), after, before_each, after_each
GenCfg ==
    [suite : BOOLEAN, before : {"none", "once", "ctx"}, after : BOOLEAN,
     before_each : BOOLEAN, after_each : BOOLEAN]

NoDecl ==
    [suite |-> FALSE, before |-> "none", after |-> FALSE,
     before_each |-> FALSE, after_each |-> FALSE]

\* the statements pushed onto `pre` (spec.rs 502-648, attr.rs 308-457, lib.rs 563-574)
Pre(c) ==
    (IF c.suite THEN <<"suite_before">> ELSE <<>>)
    \o (IF c.before # "none" THEN <<"group_before">> ELSE <<>>)
    \o (IF c.suite THEN <<"suite_before_each">> ELSE <<>>)
    \o (IF c.before_each THEN <<"group_before_each">> ELSE <<>>)

\* the post statements with the suite's after_each placed ahead of the group's
PostSuiteFirst(c) ==
    (IF c.suite THEN <<"suite_after_each">> ELSE <<>>)
    \o (IF c.after_each THEN <<"group_after_each">> ELSE <<>>)
    \o (IF c.after THEN <<"countdown">> ELSE <<>>)

\* the statements pushed onto `post` (spec.rs 667-749, attr.rs 481-565, lib.rs 576-591)
Post(c) ==
    (IF c.after_each THEN <<"group_after_each">> ELSE <<>>)
    \o (IF c.suite THEN <<"suite_after_each">> ELSE <<>>)
    \o (IF c.after THEN <<"countdown">> ELSE <<>>)

\* needs_catch without the suite opt-in
NeedsCatchWithoutSuite(c) == c.after \/ c.after_each

NeedsCatch(c) == c.after \/ c.after_each \/ c.suite

\* wrap_test_body (lib.rs 29-52)
WrapTestBody(pre, post, needs_catch) ==
    IF needs_catch
    THEN pre \o <<"catch_body">> \o post \o <<"resume">>
    ELSE pre \o <<"body">>

\* the body of one generated #[test] function
Program(c) == WrapTestBody(Pre(c), Post(c), NeedsCatch(c))

\* a test function of the module: where it is in its program, whether it is inside
\* a once-guarded body, what catch_unwind returned, whether its fetch_sub saw 1,
\* the hooks and body it has executed so far, its binding __before_ctx (the value
\* the group's before returned), the value its before_each returned, and what each hook and body it executed was handed. A function
\* that has not taken its first step has not been started by the harness (and
\* may never be).
\* a value is known by the invocation that made it: the n-th invocation of the
\* hook of module by
NoValue == [by |-> 0, n |-> 0]

Value(g, n) == [by |-> g, n |-> n]

NewThread ==
    [status |-> "ready", at |-> 1, in_once |-> FALSE, caught |-> "none",
     fire |-> FALSE, did |-> <<>>, ctx |-> NoValue, owned |-> NoValue, got |-> <<>>]

ThreadsOf(g) == BagToSet(threads[g])

Live(th) == th.status = "ready"

Instr(g, th) == Program(gcfg[g])[th.at]

RECURSIVE SumOf(_, _)
SumOf(S, f) ==
    IF S = {} THEN 0
    ELSE LET x == CHOOSE y \in S : TRUE
         IN  f[x] + SumOf(S \ {x}, f)

\* how often test function th has executed k
Count(th, k) == Cardinality({i \in 1..Len(th.did) : th.did[i] = k})

\* how often the test functions of module g have executed k, all together
Runs(g, k) ==
    SumOf(ThreadsOf(g), [th \in ThreadsOf(g) |-> CopiesIn(th, threads[g]) * Count(th, k)])

\* how many test functions of module g satisfy P
HowMany(g, P(_)) ==
    SumOf(ThreadsOf(g),
          [th \in ThreadsOf(g) |-> IF P(th) THEN CopiesIn(th, threads[g]) ELSE 0])

\* the test function th of module g becomes new
Step(g, th, new) ==
    threads' = [threads EXCEPT ![g] = (@ (-) SetToBag({th})) (+) SetToBag({new})]

\* the statement returned: on to the next, or out of the function
Advance(th, c) ==
    IF th.at = Len(Program(c))
    THEN [th EXCEPT !.status = "passed", !.at = @ + 1]
    ELSE [th EXCEPT !.at = @ + 1]

\* the statement panicked outside catch_unwind: the function unwinds
Unwind(th) == [th EXCEPT !.status = "failed", !.in_once = FALSE, !.fire = FALSE]

\* the arguments of a call: __before_ctx for the reference parameters of the
\* group's before_each, after_each, after and of the test, and the value bound
\* from before_each for the owned parameters of the test and of after_each
Handed(th, k) ==
    [shared |-> IF k \in {"group_before_each", "test_body", "group_after_each", "group_after"}
                THEN th.ctx ELSE NoValue,
     owned |-> IF k \in {"test_body", "group_after_each"} THEN th.owned ELSE NoValue]

Did(th, k) == [th EXCEPT !.did = Append(@, k), !.got = Append(@, Handed(th, k))]

\* what get_or_init of module g returns once the before body in flight, or the
\* one that initialised the cell, has returned: the value of the latest
\* invocation. A fire-and-forget before has no cell and no value
BeforeValue(g) ==
    IF gcfg[g].before = "ctx" THEN Value(g, Runs(g, "group_before")) ELSE NoValue

\* a before_each that hands every test the value of its first invocation
EachValueOfFirst(g) == Value(g, 1)

\* the value the next invocation of the before_each of module g returns
EachValue(g) == Value(g, Runs(g, "group_before_each") + 1)

\* a hook body panics
HookPanics ==
    /\ hook_panics < MaxHookPanics
    /\ hook_panics' = hook_panics + 1

\* the suite before guarded by a flag that is not waited on: a function that
\* finds the body running goes on
GenSuiteBeforeNoWait(g, th) ==
    /\ Live(th) /\ Instr(g, th) = "suite_before" /\ ~th.in_once
    /\ \/ /\ suite_once = "new"
          /\ suite_once' = "running"
          /\ Step(g, th, Did([th EXCEPT !.in_once = TRUE], "suite_before"))
       \/ /\ suite_once \in {"running", "done"}
          /\ Step(g, th, Advance(th, gcfg[g]))
          /\ UNCHANGED suite_once
       \/ /\ suite_once = "poisoned"
          /\ Step(g, th, Unwind(th))
          /\ UNCHANGED suite_once
    /\ UNCHANGED <<regVars, runVars, auxVars, gcfg, before_once, remaining, hook_panics>>

\* super::__spectacular_suite::before(): __ONCE.call_once(|| { before_body })
\* (lib.rs 132-135); a thread that finds the Once running waits
GenSuiteBefore(g, th) ==
    /\ Live(th) /\ Instr(g, th) = "suite_before" /\ ~th.in_once
    /\ \/ /\ suite_once = "new"
          /\ suite_once' = "running"
          /\ Step(g, th, Did([th EXCEPT !.in_once = TRUE], "suite_before"))
       \/ /\ suite_once = "done"
          /\ Step(g, th, Advance(th, gcfg[g]))
          /\ UNCHANGED suite_once
       \/ /\ suite_once = "poisoned"
          /\ Step(g, th, Unwind(th))
          /\ UNCHANGED suite_once
    /\ UNCHANGED <<regVars, runVars, auxVars, gcfg, before_once, remaining, hook_panics>>

\* the suite before body returns, or panics and poisons the Once
GenSuiteBeforeDone(g, th) ==
    /\ Live(th) /\ Instr(g, th) = "suite_before" /\ th.in_once
    /\ \/ /\ suite_once' = "done"
          /\ Step(g, th, Advance([th EXCEPT !.in_once = FALSE], gcfg[g]))
          /\ UNCHANGED hook_panics
       \/ /\ HookPanics
          /\ suite_once' = "poisoned"
          /\ Step(g, th, Unwind(th))
    /\ UNCHANGED <<regVars, runVars, auxVars, gcfg, before_once, remaining>>

\* __SPEC_BEFORE.call_once(__spec_before), or
\* __SPEC_BEFORE_CTX.get_or_init(__spec_before) (spec.rs 508-516, attr.rs 314-324)
GenGroupBefore(g, th) ==
    /\ Live(th) /\ Instr(g, th) = "group_before" /\ ~th.in_once
    /\ \/ /\ before_once[g] = "new"
          /\ before_once' = [before_once EXCEPT ![g] = "running"]
          /\ Step(g, th, Did([th EXCEPT !.in_once = TRUE], "group_before"))
       \/ /\ before_once[g] = "done"
          /\ Step(g, th, Advance([th EXCEPT !.ctx = BeforeValue(g)], gcfg[g]))
          /\ UNCHANGED before_once
       \/ /\ before_once[g] = "poisoned"
          /\ Step(g, th, Unwind(th))
          /\ UNCHANGED before_once
    /\ UNCHANGED <<regVars, runVars, auxVars, gcfg, suite_once, remaining, hook_panics>>

\* the group before with its result not cached: the cell stays empty after the
\* body returned
GenGroupBeforeDoneUncached(g, th) ==
    /\ Live(th) /\ Instr(g, th) = "group_before" /\ th.in_once
    /\ \/ /\ before_once' = [before_once EXCEPT ![g] = "new"]
          /\ Step(g, th, Advance([th EXCEPT !.in_once = FALSE, !.ctx = BeforeValue(g)],
                                 gcfg[g]))
          /\ UNCHANGED hook_panics
       \/ /\ HookPanics
          /\ before_once' = [before_once EXCEPT ![g] =
                                IF gcfg[g].before = "ctx" THEN "new" ELSE "poisoned"]
          /\ Step(g, th, Unwind(th))
    /\ UNCHANGED <<regVars, runVars, auxVars, gcfg, suite_once, remaining>>

\* the group before body returns, or panics: a Once is then poisoned, a OnceLock
\* is left uninitialized
GenGroupBeforeDone(g, th) ==
    /\ Live(th) /\ Instr(g, th) = "group_before" /\ th.in_once
    /\ \/ /\ before_once' = [before_once EXCEPT ![g] = "done"]
          /\ Step(g, th, Advance([th EXCEPT !.in_once = FALSE, !.ctx = BeforeValue(g)],
                                 gcfg[g]))
          /\ UNCHANGED hook_panics
       \/ /\ HookPanics
          /\ before_once' = [before_once EXCEPT ![g] =
                                IF gcfg[g].before = "ctx" THEN "new" ELSE "poisoned"]
          /\ Step(g, th, Unwind(th))
    /\ UNCHANGED <<regVars, runVars, auxVars, gcfg, suite_once, remaining>>

\* a per-test hook called outside catch_unwind: suite before_each, the group's
\* before_each, the group's after_each, suite after_each
GenEachHook(g, th) ==
    /\ Live(th)
    /\ Instr(g, th) \in {"suite_before_each", "group_before_each",
                         "group_after_each", "suite_after_each"}
    /\ \/ /\ Step(g, th, Advance([Did(th, Instr(g, th)) EXCEPT
                                       !.owned = IF Instr(g, th) = "group_before_each"
                                                 THEN EachValue(g) ELSE @],
                                 gcfg[g]))
          /\ UNCHANGED hook_panics
       \/ Step(g, th, Unwind(Did(th, Instr(g, th)))) /\ HookPanics
    /\ UNCHANGED <<regVars, runVars, auxVars, gcfg, suite_once, before_once, remaining>>

\* the test body: under catch_unwind when needs_catch, bare otherwise
GenBody(g, th) ==
    /\ Live(th)
    /\ \/ /\ Instr(g, th) = "catch_body"
          /\ \E r \in {"ok", "err"} :
                Step(g, th, Advance(Did([th EXCEPT !.caught = r], "test_body"), gcfg[g]))
       \/ /\ Instr(g, th) = "body"
          /\ \/ Step(g, th, Advance(Did(th, "test_body"), gcfg[g]))
             \/ Step(g, th, Unwind(Did(th, "test_body")))
    /\ UNCHANGED <<regVars, runVars, auxVars, gcfg, suite_once, before_once, remaining, hook_panics>>

\* the countdown compared with the declared test count: the first test to
\* decrement calls after
GenCountdownFirstFires(g, th) ==
    /\ Live(th) /\ Instr(g, th) = "countdown" /\ ~th.fire
    /\ remaining' = [remaining EXCEPT ![g] = @ - 1]
    /\ Step(g, th, IF remaining[g] = BagCardinality(threads[g])
                   THEN Did([th EXCEPT !.fire = TRUE], "countdown")
                   ELSE Advance(Did(th, "countdown"), gcfg[g]))
    /\ UNCHANGED <<regVars, runVars, auxVars, gcfg, suite_once, before_once, hook_panics>>

\* the countdown compared with the tests that have been started: the last of
\* the started tests to decrement calls after
GenCountdownOfStarted(g, th) ==
    /\ Live(th) /\ Instr(g, th) = "countdown" /\ ~th.fire
    /\ remaining' = [remaining EXCEPT ![g] = @ - 1]
    /\ Step(g, th, IF HowMany(g, LAMBDA u : u # NewThread /\ Count(u, "countdown") = 0) = 1
                   THEN Did([th EXCEPT !.fire = TRUE], "countdown")
                   ELSE Advance(Did(th, "countdown"), gcfg[g]))
    /\ UNCHANGED <<regVars, runVars, auxVars, gcfg, suite_once, before_once, hook_panics>>

\* if __SPEC_AFTER_REMAINING.fetch_sub(1, SeqCst) == 1 (spec.rs 732-735); every test
\* function subtracts at most once, so the counter never wraps below zero
GenCountdown(g, th) ==
    /\ Live(th) /\ Instr(g, th) = "countdown" /\ ~th.fire
    /\ remaining' = [remaining EXCEPT ![g] = @ - 1]
    /\ Step(g, th, IF remaining[g] = 1
                   THEN Did([th EXCEPT !.fire = TRUE], "countdown")
                   ELSE Advance(Did(th, "countdown"), gcfg[g]))
    /\ UNCHANGED <<regVars, runVars, auxVars, gcfg, suite_once, before_once, hook_panics>>

\* { __spec_after(); } (spec.rs 736, 745)
GenAfter(g, th) ==
    /\ Live(th) /\ Instr(g, th) = "countdown" /\ th.fire
    /\ \/ /\ Step(g, th, Advance(Did([th EXCEPT !.fire = FALSE], "group_after"), gcfg[g]))
          /\ UNCHANGED hook_panics
       \/ /\ Step(g, th, Unwind(Did(th, "group_after")))
          /\ HookPanics
    /\ UNCHANGED <<regVars, runVars, auxVars, gcfg, suite_once, before_once, remaining>>

\* the captured panic dropped instead of re-raised
GenResumeDropsPanic(g, th) ==
    /\ Live(th) /\ Instr(g, th) = "resume"
    /\ Step(g, th, Advance(th, gcfg[g]))
    /\ UNCHANGED <<regVars, runVars, auxVars, gcfg, suite_once, before_once, remaining, hook_panics>>

\* if let Err(__e) = __spectacular_result { resume_unwind(__e) } (lib.rs 42-44)
GenResume(g, th) ==
    /\ Live(th) /\ Instr(g, th) = "resume"
    /\ Step(g, th, IF th.caught = "err" THEN Unwind(th) ELSE Advance(th, gcfg[g]))
    /\ UNCHANGED <<regVars, runVars, auxVars, gcfg, suite_once, before_once, remaining, hook_panics>>

GenNext ==
    \/ \E g \in GroupNames : \E th \in ThreadsOf(g) : GenSuiteBefore(g, th)
    \/ \E g \in GroupNames : \E th \in ThreadsOf(g) : GenSuiteBeforeDone(g, th)
    \/ \E g \in GroupNames : \E th \in ThreadsOf(g) : GenGroupBefore(g, th)
    \/ \E g \in GroupNames : \E th \in ThreadsOf(g) : GenGroupBeforeDone(g, th)
    \/ \E g \in GroupNames : \E th \in ThreadsOf(g) : GenEachHook(g, th)
    \/ \E g \in GroupNames : \E th \in ThreadsOf(g) : GenBody(g, th)
    \/ \E g \in GroupNames : \E th \in ThreadsOf(g) : GenCountdown(g, th)
    \/ \E g \in GroupNames : \E th \in ThreadsOf(g) : GenAfter(g, th)
    \/ \E g \in GroupNames : \E th \in ThreadsOf(g) : GenResume(g, th)

\* ===========================================================================
\* Part III. cargo_spectacular::runner::run
\* ===========================================================================
\* a line of the child's stdout: text that is no JSON, or a JSON object with its
\* "type" and "event" tags and with or without the other fields its variant needs
JsonLine(type, event, fields) ==
    [json |-> TRUE, type |-> type, event |-> event, fields |-> fields]

NoJson == [json |-> FALSE, type |-> "", event |-> "", fields |-> FALSE]

\* the lines a child can write: the seven events, a suite-failed object without
\* its counts, an event tag that Suite does not have, and plain text
Lines ==
    {JsonLine("suite", e, TRUE) : e \in {"started", "ok", "failed"}}
    \cup {JsonLine("test", e, TRUE) : e \in {"started", "ok", "failed", "ignored"}}
    \cup {JsonLine("suite", "failed", FALSE), JsonLine("suite", "ignored", TRUE), NoJson}

\* event.rs 3-60: the variants serde accepts for each "type"
SuiteEvent == {"started", "ok", "failed"}

TestEvent == {"started", "ok", "failed", "ignored"}

\* serde_json::from_str::<Event>(&line) (runner.rs 55-58)
from_str(line) ==
    IF /\ line.json
       /\ line.fields
       /\ \/ line.type = "suite" /\ line.event \in SuiteEvent
          \/ line.type = "test" /\ line.event \in TestEvent
    THEN [ok |-> TRUE, type |-> line.type, event |-> line.event]
    ELSE [ok |-> FALSE, type |-> "", event |-> ""]

\* the formatter method the match of runner.rs 60-98 calls for an event
Callback(event) ==
    IF event.type = "suite"
    THEN CASE event.event = "started" -> "suite_started"
           [] event.event = "ok" -> "suite_finished_ok"
           [] event.event = "failed" -> "suite_finished_failed"
    ELSE CASE event.event = "started" -> "test_started"
           [] event.event = "ok" -> "test_passed"
           [] event.event = "failed" -> "test_failed"
           [] event.event = "ignored" -> "test_ignored"

\* ------------------------------------------------- Part V: the formatters
Formatters == {"pride", "boring", "default"}

\* formatter::create(name) (mod.rs 45-56): an unknown name falls back to pride
create(name) == IF name \in Formatters THEN name ELSE "pride"

\* terminal::size(): the columns of the terminal, a u16; a terminal that was
\* given no size reports 0
Widths == 0..MaxCols

\* mod.rs 8-13: the failure captured from a test-failed event
FailedTest(name) == [name |-> name]

\* one write!/writeln! to the writer; the escape sequences of fg/reset are left out
Token(t, n) == [t |-> t, n |-> n]

\* usize::is_multiple_of: 0 has no multiple but 0
is_multiple_of(a, b) == IF b = 0 THEN a = 0 ELSE a % b = 0

\* how a callback ends: what it returned, what it wrote, and self afterwards
Result(ret, written, dots, fails) ==
    [ret |-> ret, written |-> written, dot_count |-> dots, failures |-> fails]

\* a run of writes through `?` that finishes with the update of dot_count: all
\* of them succeed, or one fails after a prefix (the flush after all of them)
Writes(written, dots, fails, flushed) ==
    {Result("Ok", written, dots, fails)}
    \cup {Result("Err", SubSeq(written, 1, k), dot_count, fails) :
            k \in 0..(IF flushed THEN Len(written) ELSE Len(written) - 1)}

\* boring.rs 22-30: dot_count % cols panics for cols = 0
boring_emit_dot(ch, fails) ==
    IF dot_count > 0 /\ cols = 0
    THEN {Result("panic", <<>>, dot_count, fails)}
    ELSE Writes((IF dot_count > 0 /\ dot_count % cols = 0
                 THEN <<Token("\n", dot_count)>> ELSE <<>>)
                \o <<Token(ch, dot_count)>>, dot_count + 1, fails, TRUE)

\* pride.rs 35-46
pride_emit_dot(ch, fails) ==
    Writes((IF dot_count > 0 /\ is_multiple_of(dot_count, cols)
            THEN <<Token("\n", dot_count)>> ELSE <<>>)
           \o <<Token(ch, dot_count)>>, dot_count + 1, fails, TRUE)

\* default.rs 19-27
default_emit_dot(ch, fails) ==
    Writes((IF dot_count > 0 /\ is_multiple_of(dot_count, 80)
            THEN <<Token("\n", dot_count)>> ELSE <<>>)
           \o <<Token(ch, dot_count)>>, dot_count + 1, fails, TRUE)

\* self.emit_dot(ch, w) of the formatter in use
emit_dot(ch, fails) ==
    CASE formatter = "boring" -> boring_emit_dot(ch, fails)
      [] formatter = "pride" -> pride_emit_dot(ch, fails)
      [] OTHER -> default_emit_dot(ch, fails)

\* pride.rs 60-63, boring.rs 34-37, default.rs 31-34
suite_started == Writes(<<Token("Running", 0)>>, dot_count, failures, FALSE)

\* pride.rs 65-67, boring.rs 39-41, default.rs 36-38
test_started == {Result("Ok", <<>>, dot_count, failures)}

\* pride.rs 69-76, boring.rs 43-50, default.rs 40-47
test_passed == emit_dot(".", failures)

\* pride.rs 78-93, boring.rs 52-67, default.rs 49-64: the push comes first
test_failed(name) == emit_dot("X", Append(failures, FailedTest(name)))

\* pride.rs 95-97, boring.rs 69-71, default.rs 66-68
test_ignored == emit_dot("*", failures)

\* mod.rs 88-118 write_colored_failures, default.rs 90-112: nothing for an empty
\* list, else the heading and every captured failure in order
Replay(fails) ==
    IF fails = <<>>
    THEN <<>>
    ELSE <<Token("Failures:", 0)>> \o [i \in 1..Len(fails) |-> Token("failure", fails[i].name)]

\* a suite_finished that forgets the failures it has replayed
suite_finished_clears ==
    Writes(<<Token("summary", 0)>> \o Replay(failures), dot_count, <<>>, TRUE)

\* pride.rs 99-127, boring.rs 73-97, default.rs 70-116
suite_finished ==
    Writes(<<Token("summary", 0)>> \o Replay(failures), dot_count, failures, TRUE)

\* the Formatter method called cb, for the test called name, on the formatter;
\* only test_failed reads the name
Call(cb, name) ==
    LET rs == CASE cb = "suite_started" -> suite_started
                [] cb = "test_started" -> test_started
                [] cb = "test_passed" -> test_passed
                [] cb = "test_failed" -> test_failed(name)
                [] cb = "test_ignored" -> test_ignored
                [] OTHER -> suite_finished
    IN  \E r \in rs :
            /\ failures' = r.failures
            /\ dot_count' = r.dot_count
            /\ w' = w \o r.written
            /\ fmt_ret' = r.ret
            /\ received' = Append(received, [cb |-> cb, name |-> name])
            /\ UNCHANGED <<formatter, cols>>

\* a holder of the trait object other than run() may call it: the formatter
\* exists and has received fewer than MaxEvents callbacks; like run(), the
\* caller stops at the first callback that does not return Ok
Callable ==
    /\ cli_pc = "off"
    /\ formatter \in Formatters
    /\ fmt_ret \in {"none", "Ok"}
    /\ Len(received) < MaxEvents

FmtSuiteStarted ==
    /\ Callable
    /\ Call("suite_started", 0)
    /\ UNCHANGED <<regVars, runVars, genVars, cliVars, futVars>>

FmtTestStarted ==
    /\ Callable
    /\ Call("test_started", 0)
    /\ UNCHANGED <<regVars, runVars, genVars, cliVars, futVars>>

FmtTestPassed ==
    /\ Callable
    /\ Call("test_passed", 0)
    /\ UNCHANGED <<regVars, runVars, genVars, cliVars, futVars>>

FmtTestFailed ==
    /\ Callable
    /\ \E name \in TestNames : Call("test_failed", name)
    /\ UNCHANGED <<regVars, runVars, genVars, cliVars, futVars>>

FmtTestIgnored ==
    /\ Callable
    /\ Call("test_ignored", 0)
    /\ UNCHANGED <<regVars, runVars, genVars, cliVars, futVars>>

FmtSuiteFinished ==
    /\ Callable
    /\ \E success \in BOOLEAN :
          Call(IF success THEN "suite_finished_ok" ELSE "suite_finished_failed", 0)
    /\ UNCHANGED <<regVars, runVars, genVars, cliVars, futVars>>

FmtNext ==
    \/ FmtSuiteStarted
    \/ FmtTestStarted
    \/ FmtTestPassed
    \/ FmtTestFailed
    \/ FmtTestIgnored
    \/ FmtSuiteFinished

\* run() returns through a `?`
CliErr ==
    /\ cli_ret' = "Err"
    /\ cli_pc' = "returned"

\* runner.rs 19-48: the command is built and spawned; spawn can fail
CliSpawn ==
    /\ cli_pc = "spawn"
    /\ \/ cli_pc' = "lines" /\ UNCHANGED cli_ret
       \/ CliErr
    /\ UNCHANGED <<regVars, runVars, genVars, futVars, fmtVars, stdout, status, read, any_failure,
                   calls, exit_code>>

\* a loop that takes a line it cannot parse for a failure
CliLineFlagsSkipped ==
    /\ cli_pc = "lines"
    /\ \/ /\ read = Len(stdout)
          /\ cli_pc' = "wait"
          /\ UNCHANGED <<read, any_failure, calls, cli_ret, fmtVars>>
       \/ /\ read < Len(stdout)
          /\ CliErr
          /\ UNCHANGED <<read, any_failure, calls, fmtVars>>
       \/ /\ read < Len(stdout)
          /\ read' = read + 1
          /\ LET event == from_str(stdout[read + 1])
             IN  IF ~event.ok
                 THEN any_failure' = TRUE /\ UNCHANGED <<cli_pc, calls, cli_ret, fmtVars>>
                 ELSE /\ any_failure' = (any_failure
                                         \/ (event.type = "suite" /\ event.event = "failed"))
                      /\ calls' = Append(calls, [cb |-> Callback(event), line |-> read + 1])
                      /\ Call(Callback(event), read + 1)
                      /\ CASE fmt_ret' = "Ok" -> UNCHANGED <<cli_pc, cli_ret>>
                           [] fmt_ret' = "Err" -> CliErr
                           [] OTHER -> cli_pc' = "panicked" /\ UNCHANGED cli_ret
    /\ UNCHANGED <<regVars, runVars, genVars, futVars, stdout, status, exit_code>>

\* runner.rs 52-99: one turn of `for line in reader.lines()`: the read can fail,
\* a line that is no event is skipped, an event is handed to the formatter, whose
\* write can fail and which can panic; the loop ends with the stream. The test
\* of a line is told apart by the number of the line.
CliLine ==
    /\ cli_pc = "lines"
    /\ \/ /\ read = Len(stdout)
          /\ cli_pc' = "wait"
          /\ UNCHANGED <<read, any_failure, calls, cli_ret, fmtVars>>
       \/ /\ read < Len(stdout)
          /\ CliErr
          /\ UNCHANGED <<read, any_failure, calls, fmtVars>>
       \/ /\ read < Len(stdout)
          /\ read' = read + 1
          /\ LET event == from_str(stdout[read + 1])
             IN  IF ~event.ok
                 THEN UNCHANGED <<cli_pc, any_failure, calls, cli_ret, fmtVars>>
                 ELSE /\ any_failure' = (any_failure
                                         \/ (event.type = "suite" /\ event.event = "failed"))
                      /\ calls' = Append(calls, [cb |-> Callback(event), line |-> read + 1])
                      /\ Call(Callback(event), read + 1)
                      /\ CASE fmt_ret' = "Ok" -> UNCHANGED <<cli_pc, cli_ret>>
                           [] fmt_ret' = "Err" -> CliErr
                           [] OTHER -> cli_pc' = "panicked" /\ UNCHANGED cli_ret
    /\ UNCHANGED <<regVars, runVars, genVars, futVars, stdout, status, exit_code>>

\* run() that reports success whatever the child's exit status was
CliWaitIgnoresStatus ==
    /\ cli_pc = "wait"
    /\ \/ /\ cli_ret' = IF any_failure THEN "FAILURE" ELSE "SUCCESS"
          /\ cli_pc' = "returned"
       \/ CliErr
    /\ UNCHANGED <<regVars, runVars, genVars, futVars, fmtVars, stdout, status, read, any_failure,
                   calls, exit_code>>

\* runner.rs 101-107: child.wait()?, which can fail, and the exit code
CliWait ==
    /\ cli_pc = "wait"
    /\ \/ /\ cli_ret' = IF any_failure \/ ~status THEN "FAILURE" ELSE "SUCCESS"
          /\ cli_pc' = "returned"
       \/ CliErr
    /\ UNCHANGED <<regVars, runVars, genVars, futVars, fmtVars, stdout, status, read, any_failure,
                   calls, exit_code>>

\* main.rs 104-110: match runner::run(..) { Ok(code) => code, Err(e) => FAILURE }
CliMain ==
    /\ cli_pc = "returned"
    /\ exit_code' = IF cli_ret = "Err" THEN "FAILURE" ELSE cli_ret
    /\ cli_pc' = "exited"
    /\ UNCHANGED <<regVars, runVars, genVars, futVars, fmtVars, stdout, status, read, any_failure,
                   calls, cli_ret>>

CliNext == CliSpawn \/ CliLine \/ CliWait \/ CliMain

\* ===========================================================================
\* Part IV. __internal::catch_unwind_future
\* ===========================================================================
\* what one poll of a future does: it returns Pending, returns Ready(v), or panics
\* with payload v
Polled(res, v) == [res |-> res, v |-> v]

\* the futures wrapped: up to MaxPending polls that return Pending, then one that
\* returns Ready or panics
RECURSIVE Pendings(_)
Pendings(k) == IF k = 0 THEN <<>> ELSE <<Polled("Pending", 0)>> \o Pendings(k - 1)

Futures ==
    {Pendings(k) \o <<Polled(res, v)>> :
        k \in 0..MaxPending, res \in {"Ready", "panic"}, v \in {1, 2}}

\* f.as_mut().poll(cx), for the i-th time: a future polled again after it has
\* returned Ready or panicked panics
poll(i) == IF i <= Len(fut) THEN fut[i] ELSE Polled("panic", 0)

\* the state of the future catch_unwind_future returns: "created", "Pending", or
\* Ready with "Ok" and the value or "Err" and the payload
Cuf(state, v) == [state |-> state, v |-> v]

\* a wrapper that answers a panicking poll with Pending
PollFnSwallowsPanic(r) ==
    CASE r.res = "Ready" -> Cuf("Ok", r.v)
      [] r.res = "Pending" -> Cuf("Pending", 0)
      [] r.res = "panic" -> Cuf("Pending", 0)

\* lib.rs 531-535: the closure of poll_fn, on the result of catch_unwind(|| poll)
PollFn(r) ==
    CASE r.res = "Ready" -> Cuf("Ok", r.v)
      [] r.res = "Pending" -> Cuf("Pending", 0)
      [] r.res = "panic" -> Cuf("Err", r.v)

\* the executor polls the future while it has not resolved: each poll is one call
\* of the poll_fn closure, and so one poll of f (lib.rs 529-537)
FutPoll ==
    /\ cuf.state \in {"created", "Pending"}
    /\ cuf_polls' = cuf_polls + 1
    /\ fut_polls' = fut_polls + 1
    /\ cuf' = PollFn(poll(fut_polls + 1))
    /\ UNCHANGED <<regVars, runVars, genVars, cliVars, fmtVars, fut, after_await>>

\* the future is polled once more after it resolved: an async fn that has
\* returned panics when resumed, without running its body, so f is not touched
FutRepoll ==
    /\ cuf.state \in {"Ok", "Err"}
    /\ cuf_polls = fut_polls
    /\ cuf_polls' = cuf_polls + 1
    /\ UNCHANGED <<regVars, runVars, genVars, cliVars, fmtVars, fut, fut_polls, cuf, after_await>>

\* the function that awaits it goes on once the .await has yielded the Result:
\* it runs the teardown, whatever the Result is (lib.rs 166-167)
FutAfterAwait ==
    /\ cuf.state \in {"Ok", "Err"}
    /\ after_await = "none"
    /\ after_await' = "teardown"
    /\ UNCHANGED <<regVars, runVars, genVars, cliVars, fmtVars, fut, fut_polls, cuf, cuf_polls>>

FutNext == FutPoll \/ FutRepoll \/ FutAfterAwait

\* ------------------------------------------------------------ initial states
\* cargo-spectacular not started
CliIdle ==
    /\ cli_pc = "off"
    /\ stdout = <<>>
    /\ status = TRUE
    /\ read = 0
    /\ any_failure = FALSE
    /\ calls = <<>>
    /\ cli_ret = "none"
    /\ exit_code = "none"

\* no formatter created
FmtIdle ==
    /\ formatter = "none"
    /\ cols = 0
    /\ dot_count = 0
    /\ failures = <<>>
    /\ w = <<>>
    /\ fmt_ret = "none"
    /\ received = <<>>

\* formatter::create(name): PrideFormatter::new(), BoringFormatter::new() or
\* DefaultFormatter::new(); the default formatter breaks its lines at 80
FmtCreated ==
    /\ formatter \in {create(name) : name \in Formatters \cup {"fancy"}}
    /\ cols \in IF formatter = "default" THEN {80} ELSE Widths
    /\ dot_count = 0
    /\ failures = <<>>
    /\ w = <<>>
    /\ fmt_ret = "none"
    /\ received = <<>>

\* no future created
FutIdle ==
    /\ fut = <<>>
    /\ fut_polls = 0
    /\ cuf = Cuf("none", 0)
    /\ cuf_polls = 0
    /\ after_await = "none"

\* n test functions, none started
NewThreads(n) == [th \in (IF n = 0 THEN {} ELSE {NewThread}) |-> n]

GenIdle ==
    /\ gcfg = [g \in GroupNames |-> NoDecl]
    /\ threads = [g \in GroupNames |-> EmptyBag]
    /\ suite_once = "new"
    /\ before_once = [g \in GroupNames |-> "new"]
    /\ remaining = [g \in GroupNames |-> 0]
    /\ hook_panics = 0

\* one module of up to MaxThreads tests declaring anything, or two modules that
\* declare the same hooks and both opt into the suite
BasicGenCfg ==
    {c \in GenCfg : c.suite /\ c.before # "none" /\ c.after = c.after_each
                      /\ c.before_each = c.after_each}

\* the statics as the macro initializes them: test_count is the number of tests
\* the module declares (spec.rs 486-491)
GenStartState ==
    \E n1 \in 1..MaxThreads, n2 \in 0..MaxThreads :
        /\ n1 + n2 <= MaxThreads
        /\ \/ n2 = 0 /\ gcfg \in {c \in [GroupNames -> GenCfg] : c[2] = NoDecl}
           \/ n2 > 0 /\ gcfg \in {c \in [GroupNames -> BasicGenCfg] : c[1] = c[2]}
        /\ threads = [g \in GroupNames |-> NewThreads(IF g = 1 THEN n1 ELSE n2)]
        /\ remaining = [g \in GroupNames |->
                           IF gcfg[g].after THEN IF g = 1 THEN n1 ELSE n2 ELSE 0]
        /\ suite_once = "new"
        /\ before_once = [g \in GroupNames |-> "new"]
        /\ hook_panics = 0

RegistryEmpty ==
    /\ suite_hooks = <<>>
    /\ groups = <<>>
    /\ tests = <<>>
    /\ TEST_SEED = NotPresent

RunInit == RegistryInit /\ RunStart("seed") /\ CliIdle /\ FutIdle /\ FmtIdle /\ GenIdle

GenInit == RegistryEmpty /\ RunStart("off") /\ CliIdle /\ FutIdle /\ FmtIdle /\ GenStartState

RunNext ==
    \/ ReadSeed
    \/ Collect
    \/ Plan
    \/ SuiteBefore
    \/ GroupBefore
    \/ SuiteBeforeEach
    \/ BeforeEach
    \/ TestBody
    \/ AfterEach
    \/ SuiteAfterEach
    \/ PushResult
    \/ GroupAfter
    \/ SuiteAfter
    \/ Finish

\* ------------------------------------------------ runs under any TEST_SEED
\* what TEST_SEED may hold: nothing, decimal digits with or without a sign,
\* other text, no text, bytes that are not valid Unicode
SeedValues ==
    {NotPresent, Var(<<>>), Var(<<"7">>), Var(<<"2", "5">>), Var(<<"+", "3">>),
     Var(<<"-", "1">>), Var(<<"x">>), Var(<<"0xFF">>), Var(<<"1", "0xFF">>)}

\* two groups with every hook and one test each, one suite hook of every kind
SeedInit ==
    /\ suite_hooks = <<"Before", "BeforeEach", "AfterEach", "After">>
    /\ groups = <<AllHooks(1), AllHooks(2)>>
    /\ tests = TestsOf([g \in GroupNames |-> 1])
    /\ TEST_SEED \in SeedValues
    /\ RunStart("seed") /\ CliIdle /\ FutIdle /\ FmtIdle
    /\ GenIdle

SeedSpec == SeedInit /\ [][RunNext]_vars

\* ------------------------------------------- runs of two groups of two tests
\* two groups with every hook and two tests each, under an explicit seed
PlanInit ==
    /\ suite_hooks = <<>>
    /\ groups = <<AllHooks(1), AllHooks(2)>>
    /\ tests = TestsOf([g \in GroupNames |-> 2])
    /\ TEST_SEED \in {Var(<<"1">>), Var(<<"2">>), Var(<<"3">>), Var(<<"4">>)}
    /\ RunStart("seed") /\ CliIdle /\ FutIdle /\ FmtIdle
    /\ GenIdle

PlanSpec == PlanInit /\ [][RunNext]_vars

\* runner::run over a registry in which module 1 has two TestGroup registrations
\* with whatever hooks, and one or two tests
DupInit ==
    /\ suite_hooks = <<"Before", "BeforeEach", "AfterEach", "After">>
    /\ groups \in {s \in [1..2 -> TestGroup] :
                      \A i \in 1..2 :
                          /\ s[i].name = 1
                          /\ <<s[i].before, s[i].after, s[i].before_each, s[i].after_each>>
                                \in HookSets}
    /\ \E n \in 1..2 : tests = TestsOf([g \in GroupNames |-> IF g = 1 THEN n ELSE 0])
    /\ TEST_SEED = Var(<<"1">>)
    /\ RunStart("seed") /\ CliIdle /\ FutIdle /\ FmtIdle
    /\ GenIdle

DupSpec == DupInit /\ [][RunNext]_vars

\* cargo spectacular started on a child that will write up to MaxLines lines and
\* exit with or without success
CliInit ==
    /\ RegistryEmpty /\ RunStart("off") /\ GenIdle /\ FutIdle /\ FmtCreated
    /\ cli_pc = "spawn"
    /\ stdout \in SeqsUpTo(MaxLines, Lines)
    /\ status \in BOOLEAN
    /\ read = 0
    /\ any_failure = FALSE
    /\ calls = <<>>
    /\ cli_ret = "none"
    /\ exit_code = "none"

\* cargo spectacular alone
CliSpec == CliInit /\ [][CliNext]_vars

\* catch_unwind_future(f) created for a future f and not yet polled
FutInit ==
    /\ RegistryEmpty /\ RunStart("off") /\ GenIdle /\ CliIdle /\ FmtIdle
    /\ fut \in Futures
    /\ fut_polls = 0
    /\ cuf = Cuf("created", 0)
    /\ cuf_polls = 0
    /\ after_await = "none"

\* catch_unwind_future alone
FutSpec == FutInit /\ [][FutNext]_vars

\* a formatter created and handed to a caller of the Formatter trait
FmtInit ==
    /\ RegistryEmpty /\ RunStart("off") /\ GenIdle /\ CliIdle /\ FutIdle /\ FmtCreated

\* a formatter alone
FmtSpec == FmtInit /\ [][FmtNext]_vars

\* runner::run over registries that hold the same groups and tests in different
\* registration orders: up to two TestGroup registrations and up to two tests
OrderInit ==
    /\ suite_hooks = <<>>
    /\ groups \in {s \in SeqsUpTo(2, {AllHooks(1), AllHooks(2)}) :
                      \A i, j \in 1..Len(s) : i < j => s[i].name # s[j].name}
    /\ tests \in {s \in SeqsUpTo(2, TestCase) : \A i, j \in 1..Len(s) : i < j => s[i] # s[j]}
    /\ TEST_SEED \in {Var(<<"1">>), Var(<<"2">>), Var(<<"3">>), Var(<<"4">>)}
    /\ RunStart("seed") /\ CliIdle /\ FutIdle /\ FmtIdle
    /\ GenIdle

OrderSpec == OrderInit /\ [][RunNext]_vars

\* runner::run alone
RunSpec == RunInit /\ [][RunNext]_vars

\* the generated test functions alone, run by the harness on concurrent threads
GenSpec == GenInit /\ [][GenNext]_vars

\* either
Init == RunInit \/ GenInit \/ CliInit \/ FutInit \/ FmtInit

Next == RunNext \/ GenNext \/ CliNext \/ FutNext \/ FmtNext

Spec == Init /\ [][Next]_vars

\* --------------------------------------------------- reading the invocation log
IsPrefix(s, t) == Len(s) <= Len(t) /\ SubSeq(t, 1, Len(s)) = s

Repeat(k, n) == [i \in 1..n |-> k]

KindsOf(evs) == [i \in 1..Len(evs) |-> evs[i].k]

HooksIn(evs) == [i \in 1..Len(evs) |-> evs[i].h]

\* where in the log the hook or body of kind k ran for group n and test t (0: none)
Where(k, n, t) == {i \in 1..Len(log) : log[i].k = k /\ log[i].g = n /\ log[i].t = t}

\* where in the log anything ran for test t
StepsOf(t) == {i \in 1..Len(log) : log[i].t = t}

EventsOf(t) == SelectSeq(log, LAMBDA e : e.t = t)

EventsOfKind(k) == SelectSeq(log, LAMBDA e : e.k = k)

Min(S) == CHOOSE x \in S : \A y \in S : x <= y

\* test t has its TestResult
Recorded(t) == \E i \in 1..Len(results) : results[i].test = t

\* the TestGroup registration in force for the module of test t (0: none)
GroupOf(t) == group_map[tests[t].module].group

\* the nested order of the steps of one test of runner::run
RunOrder(t) ==
    Repeat("suite_before_each", Len(suite_before_eachs))
    \o (IF HasHook(GroupOf(t), "before_each") THEN <<"group_before_each">> ELSE <<>>)
    \o <<"test_body">>
    \o (IF HasHook(GroupOf(t), "after_each") THEN <<"group_after_each">> ELSE <<>>)
    \o Repeat("suite_after_each", Len(suite_after_eachs))

\* the nested order of the steps of one generated test function
GenOrder(c) ==
    (IF c.suite THEN <<"suite_before_each">> ELSE <<>>)
    \o (IF c.before_each THEN <<"group_before_each">> ELSE <<>>)
    \o <<"test_body">>
    \o (IF c.after_each THEN <<"group_after_each">> ELSE <<>>)
    \o (IF c.suite THEN <<"suite_after_each">> ELSE <<>>)

PerTestKinds ==
    {"suite_before_each", "group_before_each", "test_body", "group_after_each",
     "suite_after_each"}

\* the per-test steps a generated test function has executed
PerTestDid(th) == SelectSeq(th.did, LAMBDA k : k \in PerTestKinds)

\* the function ran to its end, or to the point where its body's panic leaves it
Finished(g, th) ==
    \/ th.status = "passed"
    \/ th.status = "failed" /\ Instr(g, th) \in {"resume", "body"}

\* --------------------------------------------- reading the generated functions
\* th saw its fetch_sub return 1
SawOne(th) == th.fire \/ Count(th, "group_after") > 0

Decremented(th) == Count(th, "countdown") > 0

Stopped(th) == th.status # "ready"

\* the value is the text of a non-negative 64-bit integer: decimal digits, with
\* at most a leading '+'
Unsigned(bytes) == IF bytes # <<>> /\ Head(bytes) = "+" THEN Tail(bytes) ELSE bytes

ValidU64(v) ==
    /\ v.present
    /\ Unsigned(v.bytes) # <<>>
    /\ \A i \in 1..Len(Unsigned(v.bytes)) : Unsigned(v.bytes)[i] \in DOMAIN Digit

\* ---------------------------------------------------------------------- C1
\* C1: for every test, in runner::run and in the generated code alike, the
\* per-test steps run in the nested order suite before_each, group before_each,
\* test body, group after_each, suite after_each: what has run so far is always
\* a prefix of that order, and a test that is through has run all of it, whether
\* its body passed or panicked.
C1_PerTestNestedOrder ==
    /\ \A t \in 1..Len(tests) :
          LET ks == KindsOf(EventsOf(t))
          IN  ks # <<>> => /\ IsPrefix(ks, RunOrder(t))
                           /\ Recorded(t) => ks = RunOrder(t)
    /\ \A g \in GroupNames : \A th \in ThreadsOf(g) :
          /\ IsPrefix(PerTestDid(th), GenOrder(gcfg[g]))
          /\ Finished(g, th) => PerTestDid(th) = GenOrder(gcfg[g])

\* a run returned in which a test whose body panicked went through all five layers
C1_Witness ==
    /\ pc = "returned"
    /\ \E i \in 1..Len(results) :
          /\ results[i].outcome.tag = "Failed"
          /\ KindsOf(EventsOf(results[i].test)) =
                <<"suite_before_each", "group_before_each", "test_body",
                  "group_after_each", "suite_after_each">>

\* ---------------------------------------------------------------------- C2
\* C2: in runner::run, a test of a group that declares before_each / after_each
\* has the group's before_each invoked exactly once, before its body, and the
\* group's after_each exactly once, after its body, whether the body panicked or
\* not; a run that returns has done so for every registered test; and the
\* after_each of a test comes before every step of any test that starts later.
C2_EachHooksOncePerTest ==
    /\ \A t \in 1..Len(tests) :
          LET n == tests[t].module
              body == Where("test_body", n, t)
              bes == Where("group_before_each", n, t)
              aes == Where("group_after_each", n, t)
          IN  /\ Cardinality(body) <= 1 /\ Cardinality(bes) <= 1 /\ Cardinality(aes) <= 1
              /\ \A i \in bes : \A j \in body : i < j
              /\ \A i \in aes : \E j \in body : j < i
              /\ Recorded(t) =>
                    /\ Cardinality(body) = 1
                    /\ HasHook(GroupOf(t), "before_each") => Cardinality(bes) = 1
                    /\ HasHook(GroupOf(t), "after_each") => Cardinality(aes) = 1
              /\ pc = "returned" => Recorded(t)
    /\ \A t, u \in 1..Len(tests) :
          (StepsOf(t) # {} /\ StepsOf(u) # {} /\ Min(StepsOf(t)) < Min(StepsOf(u))) =>
              /\ \A i \in StepsOf(t) : i < Min(StepsOf(u))
              /\ HasHook(GroupOf(t), "after_each") =>
                    \E i \in Where("group_after_each", tests[t].module, t) :
                        i < Min(StepsOf(u))

\* a run returned in which a body panicked in a group with both hooks, and
\* another test of that group ran after it
C2_Witness ==
    /\ pc = "returned"
    /\ \E i, j \in 1..Len(results) :
          /\ i < j
          /\ results[i].outcome.tag = "Failed"
          /\ tests[results[i].test].module = tests[results[j].test].module
          /\ HasHook(GroupOf(results[i].test), "before_each")
          /\ HasHook(GroupOf(results[i].test), "after_each")

\* ---------------------------------------------------------------------- C3
\* C3: a run of runner::run that returns has executed every registered test and
\* returns exactly one TestResult for each; a result is Failed exactly when the
\* body panicked; passed() counts the bodies that did not panic and failed()
\* those that did; and a run is never cut short by a panicking body.
C3_OneResultPerTest ==
    /\ pc = "returned" =>
          /\ Len(returned.results) = Len(tests)
          /\ \A t \in 1..Len(tests) :
                /\ Cardinality({i \in 1..Len(returned.results) :
                                   returned.results[i].test = t}) = 1
                /\ Cardinality(Where("test_body", tests[t].module, t)) = 1
          /\ \A i \in 1..Len(returned.results) :
                LET t == returned.results[i].test
                IN  returned.results[i].outcome.tag = "Failed"
                        <=> \E k \in Where("test_body", tests[t].module, t) : log[k].p
          /\ passed(returned) =
                Cardinality({k \in 1..Len(log) : log[k].k = "test_body" /\ ~log[k].p})
          /\ failed(returned) =
                Cardinality({k \in 1..Len(log) : log[k].k = "test_body" /\ log[k].p})
          /\ passed(returned) + failed(returned) = Len(tests)
    /\ (pc = "panicked" /\ log # <<>>) => log[Len(log)].k # "test_body"

\* a run returned with a passed and a failed test, the failed one not the last
C3_Witness ==
    /\ pc = "returned"
    /\ passed(returned) >= 1
    /\ failed(returned) >= 1
    /\ Len(returned.results) = MaxTests
    /\ returned.results[1].outcome.tag = "Failed"

\* ---------------------------------------------------------------------- C4
\* C4: in runner::run, the after hook of a group runs at most once, a run that
\* returns has run it exactly once, and when it runs every test of the group
\* has had its body and its per-test teardown (the group's after_each, every
\* suite after_each) and has no step left; whatever the number of tests and
\* whichever bodies panicked.
C4_GroupAfterOnceAtEnd ==
    \A n \in DOMAIN group_map :
        HasHook(group_map[n].group, "after") =>
            LET afters == Where("group_after", n, 0)
            IN  /\ Cardinality(afters) <= 1
                /\ pc = "returned" => Cardinality(afters) = 1
                /\ \A a \in afters : \A t \in Range(group_map[n].tests) :
                      /\ \E i \in Where("test_body", n, t) : i < a
                      /\ HasHook(group_map[n].group, "after_each") =>
                            \E i \in Where("group_after_each", n, t) : i < a
                      /\ Cardinality(Where("suite_after_each", n, t)) =
                            Len(suite_after_eachs)
                      /\ \A i \in StepsOf(t) : i < a
                      /\ Recorded(t)

\* a run returned in which a group with an after hook had two or more tests, the
\* first of them failing
C4_Witness ==
    /\ pc = "returned"
    /\ \E n \in DOMAIN group_map :
          /\ HasHook(group_map[n].group, "after")
          /\ Len(group_map[n].tests) >= 2
          /\ Where("group_after", n, 0) # {}
          /\ \E k \in Where("test_body", n, group_map[n].tests[1]) : log[k].p

\* ---------------------------------------------------------------------- C5
\* C5: in runner::run, the before hook of a group runs at most once, a run that
\* returns has run it exactly once (also for a group without tests), it runs
\* ahead of every step of every test of the group, and every test body of the
\* group finds it executed exactly once; whichever bodies panicked.
C5_GroupBeforeOnceAtStart ==
    \A n \in DOMAIN group_map :
        HasHook(group_map[n].group, "before") =>
            LET befores == Where("group_before", n, 0)
            IN  /\ Cardinality(befores) <= 1
                /\ pc = "returned" => Cardinality(befores) = 1
                /\ \A i \in 1..Len(log) :
                      (log[i].g = n /\ log[i].t # 0) =>
                          Cardinality({b \in befores : b < i /\ ~log[b].p}) = 1

\* a run returned in which a group with a before hook had two or more tests, one
\* of them failing, and another such group had none
C5_Witness ==
    /\ pc = "returned"
    /\ \E n \in DOMAIN group_map :
          /\ HasHook(group_map[n].group, "before")
          /\ Len(group_map[n].tests) >= 2
          /\ \E t \in Range(group_map[n].tests) :
                \E k \in Where("test_body", n, t) : log[k].p
    /\ \E n \in DOMAIN group_map :
          /\ HasHook(group_map[n].group, "before")
          /\ group_map[n].tests = <<>>
          /\ Where("group_before", n, 0) # {}

\* ---------------------------------------------------------------------- C6
\* C6: in the generated code of a group with an after hook, while no hook has
\* panicked: every test function decrements the countdown at most once; at most
\* one of them sees the counter go from 1 to 0; when it does, the counter is 0
\* and every test function of the group has decremented, having finished its
\* body and its after_each; after runs at most once; and when all N test
\* functions have run to their end, after has run exactly once; in every
\* interleaving, whichever bodies panicked.
C6_CountdownFiresAfterOnce ==
    hook_panics = 0 =>
        \A g \in GroupNames :
            gcfg[g].after =>
                /\ remaining[g] = BagCardinality(threads[g]) - Runs(g, "countdown")
                /\ \A th \in ThreadsOf(g) : Count(th, "countdown") <= 1
                /\ HowMany(g, SawOne) <= 1
                /\ Runs(g, "group_after") <= 1
                /\ \A th \in ThreadsOf(g) :
                      SawOne(th) =>
                          /\ remaining[g] = 0
                          /\ \A u \in ThreadsOf(g) :
                                /\ Decremented(u)
                                /\ Count(u, "test_body") = 1
                                /\ gcfg[g].after_each => Count(u, "group_after_each") = 1
                                /\ \A i, j \in 1..Len(u.did) :
                                      (u.did[i] = "countdown" /\ j # i) =>
                                          (j < i <=> u.did[j] # "group_after")
                /\ (\A th \in ThreadsOf(g) : Stopped(th)) => Runs(g, "group_after") = 1

\* all MaxThreads test functions of a group with after and after_each ran to
\* their end, two of them with a panicking body, no hook panicked, and after ran
C6_Witness ==
    /\ hook_panics = 0
    /\ \E g \in GroupNames :
          /\ gcfg[g].after /\ gcfg[g].after_each
          /\ BagCardinality(threads[g]) = MaxThreads
          /\ \A th \in ThreadsOf(g) : Stopped(th)
          /\ HowMany(g, LAMBDA th : th.status = "failed") = 2
          /\ Runs(g, "group_after") = 1

\* ---------------------------------------------------------------------- C7
\* C7: in the generated code, the before body of a group is executed at most
\* once and by at most one test function, and a test function of the group has
\* started its before_each or its body only when a before body has completed;
\* in every interleaving.
C7_BeforeBodyAtMostOnce ==
    \A g \in GroupNames :
        gcfg[g].before # "none" =>
            /\ Runs(g, "group_before") <= 1
            /\ HowMany(g, LAMBDA th : Count(th, "group_before") > 0) <= 1
            /\ \A th \in ThreadsOf(g) :
                  (Count(th, "group_before_each") > 0 \/ Count(th, "test_body") > 0) =>
                      before_once[g] = "done"

\* ---------------------------------------------------------------------- C8
\* C8: every suite before hook runs at most once. In runner::run a group's
\* before hook, or any step of any test, starts only when every suite before
\* hook has run and returned, for every seed and so for every execution order;
\* in the generated code the suite before body runs at most once in the process
\* and a group that opted in starts its before only when that body has returned.
C8_SuiteBeforesFirst ==
    /\ \A h \in Range(suite_befores) :
          Cardinality({i \in 1..Len(log) : log[i].k = "suite_before" /\ log[i].h = h}) <= 1
    /\ \A j \in 1..Len(log) :
          log[j].k # "suite_before" =>
              \A h \in Range(suite_befores) :
                  \E i \in 1..(j - 1) :
                      log[i].k = "suite_before" /\ log[i].h = h /\ ~log[i].p
    /\ SumOf(GroupNames, [g \in GroupNames |-> Runs(g, "suite_before")]) <= 1
    /\ \A g \in GroupNames :
          gcfg[g].suite =>
              \A th \in ThreadsOf(g) :
                  Count(th, "group_before") > 0 => suite_once = "done"

\* two suite before hooks ran, then the before hooks of two groups, the group
\* named second ahead of the group named first
C8_Witness ==
    /\ Len(EventsOfKind("suite_before")) = 2
    /\ Len(EventsOfKind("group_before")) = 2
    /\ EventsOfKind("group_before")[1].g = 2

\* ---------------------------------------------------------------------- C9
\* C9: in runner::run, every suite after hook runs at most once, a run that
\* returns has run each exactly once, a suite after hook starts only when every
\* test has its result and every group's after hook has run, and once a suite
\* after hook has started nothing but suite after hooks runs.
C9_SuiteAftersLast ==
    /\ \A h \in Range(suite_afters) :
          LET runs == {i \in 1..Len(log) : log[i].k = "suite_after" /\ log[i].h = h}
          IN  /\ Cardinality(runs) <= 1
              /\ pc = "returned" => Cardinality(runs) = 1
    /\ \A i \in 1..Len(log) :
          log[i].k = "suite_after" =>
              /\ \A j \in (i + 1)..Len(log) : log[j].k = "suite_after"
              /\ \A t \in 1..Len(tests) : Recorded(t)
              /\ \A n \in DOMAIN group_map :
                    HasHook(group_map[n].group, "after") =>
                        \E a \in Where("group_after", n, 0) : a < i

\* a run returned that ran a suite after hook after two groups with after hooks
\* and three tests
C9_Witness ==
    /\ pc = "returned"
    /\ Len(EventsOfKind("suite_after")) >= 1
    /\ Len(EventsOfKind("group_after")) = 2
    /\ Len(results) = MaxTests

\* --------------------------------------------------------------------- C10
\* C10: in runner::run, the suite before hooks run in their registration order
\* and the suite after hooks in the reverse of theirs: what has run so far is a
\* prefix of that order, and a run that returns has run all of it.
C10_SuiteHookOrder ==
    LET befores == HooksIn(EventsOfKind("suite_before"))
        afters == HooksIn(EventsOfKind("suite_after"))
    IN  /\ IsPrefix(befores, suite_befores)
        /\ \A i, j \in 1..Len(befores) : i < j => befores[i] < befores[j]
        /\ IsPrefix(afters, Reverse(suite_afters))
        /\ \A i, j \in 1..Len(afters) : i < j => afters[i] > afters[j]
        /\ pc = "returned" =>
              befores = suite_befores /\ afters = Reverse(suite_afters)

\* a run returned with two suite before hooks and two suite after hooks
C10_Witness ==
    /\ pc = "returned"
    /\ Len(EventsOfKind("suite_before")) = 2
    /\ Len(EventsOfKind("suite_after")) = 2
    /\ Len(results) >= 1

\* --------------------------------------------------------------------- C11
\* a TestGroup has the four hook fields and nothing by which a group opts into
\* the suite hooks, and run() consults nothing of the kind: as far as the
\* registry tells, no group has opted in
RunOptIn(g) == FALSE

\* C11: no suite hook is executed around a test of a group that did not opt in.
\* In the generated code a test function of a module without `suite;` executes
\* no suite before, suite before_each or suite after_each; in runner::run a
\* suite before_each or after_each is invoked for a test only if its group
\* opted in.
C11_SuiteHooksOnlyForOptedIn ==
    /\ \A g \in GroupNames : \A th \in ThreadsOf(g) :
          ~gcfg[g].suite =>
              /\ Count(th, "suite_before") = 0
              /\ Count(th, "suite_before_each") = 0
              /\ Count(th, "suite_after_each") = 0
    /\ \A i \in 1..Len(log) :
          log[i].k \in {"suite_before_each", "suite_after_each"} =>
              RunOptIn(GroupOf(log[i].t))

C13_SameSeedSameOrder ==
    (ValidU64(TEST_SEED) /\ group_names # <<>>) =>
        \A order \in Orders(DOMAIN group_map) :
            LET again == Planned(BuildGroupMap(groups, tests), order, SeedFromU64(seed))
            IN  /\ again.group_names = group_names
                /\ \A n \in DOMAIN group_map : again.map[n].tests = group_map[n].tests
\* --------------------------------------------------------------------- C14
\* C14: the seed in the SuiteResult that runner::run returns is the seed the run
\* was ordered with: the generator that shuffled the groups was seeded with it;
\* it is the value of TEST_SEED when that holds a valid u64 and a freshly drawn
\* seed otherwise; and the header and the summary print that same value.
C14_ReportedSeedIsUsedSeed ==
    /\ out # <<>> => out[1] = print_header(seed)
    /\ pc = "returned" =>
          /\ returned.seed = seed
          /\ ValidU64(TEST_SEED) => returned.seed = DigitsValue(Unsigned(TEST_SEED.bytes), 0)
          /\ ~ValidU64(TEST_SEED) => returned.seed \in Seeds
          /\ LET sorted == SortByKey(CHOOSE o \in Orders(DOMAIN group_map) : TRUE,
                                     [n \in GroupNames |-> n])
             IN  group_names = Shuffle(sorted, SeedFromU64(returned.seed)).seq
          /\ Len(out) = 2
          /\ out[1].what = "header" /\ out[1].seed = returned.seed
          /\ out[2].what = "summary" /\ out[2].seed = returned.seed
          /\ out[2].reproduce = returned.seed

\* a run under TEST_SEED=25 returned, its two groups not in their sorted order
C14_Witness ==
    /\ pc = "returned"
    /\ TEST_SEED = Var(<<"2", "5">>)
    /\ returned.seed = 25
    /\ group_names = <<2, 1>>

\* --------------------------------------------------------------------- C15
\* C15: when TEST_SEED is present and its value is not a valid u64, runner::run
\* fails at once: no suite hook, group hook or test body is ever executed and
\* no SuiteResult is returned.
C15_InvalidSeedFailsFast ==
    (TEST_SEED.present /\ ~ValidU64(TEST_SEED)) =>
        /\ pc \in {"seed", "panicked"}
        /\ log = <<>>
        /\ returned = NoResult


\* ------------------------------------------------------------------ C16
\* what the calls of module g were handed for their reference parameters
SharedSeen(g) ==
    UNION {{th.got[i].shared : i \in 1..Len(th.got)} : th \in ThreadsOf(g)} \ {NoValue}

\* C16: in a module whose before returns a value, every before_each, test body,
\* after_each and after that ran was handed a reference to one and the same
\* value, which the before of that very module made; a function holds it only
\* once the cell is initialised, and from then on the before body is never
\* invoked again; no function of another module is ever handed it.
C16_SharedOnce ==
    /\ [](\A g \in GroupNames :
            gcfg[g].before = "ctx" =>
                /\ \A th \in ThreadsOf(g) :
                      /\ th.ctx # NoValue =>
                            (before_once[g] = "done" /\ th.ctx = BeforeValue(g))
                      /\ \A i \in 1..Len(th.did) :
                            th.did[i] \in {"group_before_each", "test_body",
                                           "group_after_each", "group_after"}
                                => (th.got[i].shared = th.ctx /\ th.ctx # NoValue)
                /\ Cardinality(SharedSeen(g)) <= 1
                /\ \A v \in SharedSeen(g) : v.by = g
                /\ \A h \in GroupNames \ {g} : SharedSeen(h) \cap SharedSeen(g) = {})
    /\ [][\A g \in GroupNames :
            gcfg[g].before = "ctx" /\ before_once[g] = "done"
                => (before_once'[g] = "done"
                    /\ Runs(g, "group_before")' = Runs(g, "group_before"))]_vars

\* two modules with a context-returning before: in each, the function that ran
\* after had run its body, and every call was handed the module's own value
C16_Witness ==
    \A g \in GroupNames :
        /\ gcfg[g].before = "ctx" /\ gcfg[g].after
        /\ SharedSeen(g) = {Value(g, 1)}
        /\ \E th \in ThreadsOf(g) : Count(th, "test_body") = 1 /\ Count(th, "group_after") = 1


\* ------------------------------------------------------------------ C17
\* what test function th was handed for the owned parameters of its body and of
\* its after_each
OwnedSeen(th) ==
    {th.got[i].owned : i \in {j \in 1..Len(th.did) :
                                 th.did[j] \in {"test_body", "group_after_each"}}}

\* C17: in a module with a before_each, every test function invokes before_each
\* at most once, and exactly once before its body; its body and its after_each
\* are handed the value that invocation returned and nothing else; and no two
\* test functions ever hold the value of the same invocation.
C17_OwnedPerTest ==
    \A g \in GroupNames :
        gcfg[g].before_each =>
            /\ \A th \in ThreadsOf(g) :
                  /\ Count(th, "group_before_each") <= 1
                  /\ Count(th, "test_body") > 0 => Count(th, "group_before_each") = 1
                  /\ th.owned # NoValue =>
                        (th.owned.by = g /\ CopiesIn(th, threads[g]) = 1
                         /\ Count(th, "group_before_each") = 1)
                  /\ OwnedSeen(th) \subseteq {th.owned} \ {NoValue}
            /\ \A th1, th2 \in ThreadsOf(g) :
                  th1 # th2 /\ th1.owned # NoValue => th1.owned # th2.owned

\* two test functions of one module ran before_each, body and after_each; the
\* body of the one that took the first value panicked, the other one got the
\* second value
C17_Witness ==
    /\ gcfg[1].before_each /\ gcfg[1].after_each
    /\ \E th1, th2 \in ThreadsOf(1) :
          /\ th1.owned = Value(1, 1) /\ th1.caught = "err"
          /\ th2.owned = Value(1, 2) /\ th2.caught = "ok"
          /\ OwnedSeen(th1) = {Value(1, 1)} /\ OwnedSeen(th2) = {Value(1, 2)}
          /\ Count(th1, "group_after_each") = 1 /\ Count(th2, "group_after_each") = 1


\* ------------------------------------------------------------------ C18
\* the run is over: run() returned, or a panic unwound out of it
RunOver == pc \in {"returned", "panicked"}

\* C18: in runner::run, when a per-test hook (the group's before_each or
\* after_each, a suite before_each or after_each) panics around a test, the
\* run does not end before the teardown still owed has run after that panic:
\* the after of the test's group, if it has one, and every suite after hook,
\* in reverse registration order.
C18_TeardownAfterHookPanic ==
    RunOver =>
        \A i \in 1..Len(log) :
            (log[i].p /\ log[i].k \in {"suite_before_each", "group_before_each",
                                       "group_after_each", "suite_after_each"})
                => /\ HasHook(group_map[log[i].g].group, "after")
                        => \E j \in (i + 1)..Len(log) :
                              log[j].k = "group_after" /\ log[j].g = log[i].g
                   /\ HooksIn(SelectSeq(SubSeq(log, i + 1, Len(log)),
                                        LAMBDA e : e.k = "suite_after"))
                        = Reverse(suite_afters)

\* ------------------------------------------------------------------ C19
\* C19: in runner::run, whatever panicked (a test body, a group hook, a suite
\* hook), the run does not end by unwinding: when it is over it has returned a
\* SuiteResult, and the summary is the last thing it printed.
C19_RunCompletesDespitePanics ==
    (RunOver /\ \E i \in 1..Len(log) : log[i].p)
        => /\ pc = "returned"
           /\ returned # NoResult
           /\ out # <<>> /\ out[Len(out)].what = "summary"


\* ------------------------------------------------------------------ C20
\* two TestGroup registrations carry the same group name
DuplicateGroups ==
    \E i, j \in 1..Len(groups) : i < j /\ groups[i].name = groups[j].name

\* C20: in runner::run, a registry with two TestGroup registrations for one
\* group name is rejected before anything runs: no hook and no test body is
\* ever called, no result is recorded, and the run does not return a
\* SuiteResult as if the registry were well-formed.
C20_DuplicateGroupsRejected ==
    DuplicateGroups => log = <<>> /\ results = <<>> /\ pc # "returned"


\* ------------------------------------------------------------------ C21
\* C21: in runner::run, for a registered group with hooks and no test: its
\* before and its after are each called at most once, the after only after the
\* before returned; a run that returns has called each of them exactly once;
\* nothing else is ever called for the group (no before_each, after_each,
\* suite per-test hook or test body), and no TestResult belongs to it.
C21_EmptyGroupBeforeAfter ==
    \A n \in DOMAIN group_map :
        (group_map[n].group # 0 /\ group_map[n].tests = <<>>) =>
            LET befores == Where("group_before", n, 0)
                afters == Where("group_after", n, 0)
                declared(h) == IF HasHook(group_map[n].group, h) THEN 1 ELSE 0
            IN  /\ Cardinality(befores) <= declared("before")
                /\ Cardinality(afters) <= declared("after")
                /\ \A a \in afters :
                      HasHook(group_map[n].group, "before") =>
                          \E b \in befores : b < a /\ ~log[b].p
                /\ pc = "returned" =>
                      /\ Cardinality(befores) = declared("before")
                      /\ Cardinality(afters) = declared("after")
                /\ \A i \in 1..Len(log) :
                      log[i].g = n => log[i].k \in {"group_before", "group_after"}
                /\ \A i \in 1..Len(results) : tests[results[i].test].module # n

\* a run returned in which a group with all four hooks and no test ran its before
\* and then its after, next to a group that ran two tests
C21_Witness ==
    /\ pc = "returned"
    /\ \E n \in DOMAIN group_map :
          /\ group_map[n].group # 0 /\ group_map[n].tests = <<>>
          /\ groups[group_map[n].group] = AllHooks(n)
          /\ \E b \in Where("group_before", n, 0), a \in Where("group_after", n, 0) : b < a
    /\ Len(results) >= 2


\* ------------------------------------------------------------------ C22
\* C22: in runner::run, for a module that has tests and no TestGroup
\* registration: no before, after, before_each or after_each of any group is
\* ever called for it; each of its tests has its body called at most once and
\* at most one TestResult; and a run that returns has called every one of them
\* exactly once and recorded exactly one TestResult for each.
C22_UnregisteredGroupRuns ==
    \A t \in 1..Len(tests) :
        (\A i \in 1..Len(groups) : groups[i].name # tests[t].module) =>
            LET n == tests[t].module
                bodies == Cardinality(Where("test_body", n, t))
                recorded == Cardinality({i \in 1..Len(results) : results[i].test = t})
            IN  /\ \A i \in 1..Len(log) :
                      log[i].g = n =>
                          log[i].k \in {"suite_before_each", "test_body", "suite_after_each"}
                /\ bodies <= 1 /\ recorded <= 1
                /\ recorded <= bodies
                /\ pc = "returned" => bodies = 1 /\ recorded = 1

\* a run returned that ran three tests of a module without TestGroup, one of them
\* failing, between suite per-test hooks
C22_Witness ==
    /\ pc = "returned"
    /\ groups = <<>>
    /\ \E n \in DOMAIN group_map :
          /\ Len(group_map[n].tests) = MaxTests
          /\ \E t \in Range(group_map[n].tests) :
                \E i \in Where("test_body", n, t) : log[i].p
    /\ Len(results) = MaxTests
    /\ EventsOfKind("suite_before_each") # <<>>


\* ------------------------------------------------------------------ C23
\* C23: in runner::run, a TestResult is Failed exactly when the body of its
\* test panicked; its message then is the text of the panic's &str or String
\* payload, or "test panicked" for a payload of another type, followed by the
\* file and line of that same test.
C23_FailedMessage ==
    \A i \in 1..Len(results) :
        LET t == results[i].test
            e == Payload(tests[t].name)
            panicked == \E k \in Where("test_body", tests[t].module, t) : log[k].p
        IN  /\ results[i].outcome.tag = "Failed" <=> panicked
            /\ results[i].outcome.tag = "Failed" =>
                  /\ results[i].outcome.at = t
                  /\ e.type \in {"&str", "String"} => results[i].outcome.text = e.text
                  /\ e.type = "other" => results[i].outcome.text = "test panicked"
            /\ results[i].outcome.tag = "Passed" => results[i].outcome = Passed

\* three tests failed in one run, one with each kind of payload
C23_Witness ==
    /\ Len(results) = 3
    /\ \A i \in 1..3 : results[i].outcome.tag = "Failed"
    /\ {Payload(tests[results[i].test].name).type : i \in 1..3} = {"&str", "String", "other"}
    /\ {results[i].outcome.text : i \in 1..3} = {"a", "b", "test panicked"}


\* ------------------------------------------------------------------ C24
\* a suite-failed event is among the first k lines of the child's stdout
SuiteFailedIn(k) ==
    \E i \in 1..k :
        LET event == from_str(stdout[i])
        IN  event.ok /\ event.type = "suite" /\ event.event = "failed"

\* C24: cargo-spectacular's run returns an exit code only after it has read the
\* whole stream and waited for the child; that code is SUCCESS exactly when no
\* line of the stream is a suite-failed event and the child exited
\* successfully, and FAILURE otherwise; main exits with the code run returned,
\* and with FAILURE when run returned an I/O error.
C24_ExitCode ==
    /\ cli_ret \in {"SUCCESS", "FAILURE"} =>
          /\ read = Len(stdout)
          /\ cli_ret = "SUCCESS" <=> (~SuiteFailedIn(Len(stdout)) /\ status)
    /\ exit_code = "SUCCESS" => cli_ret = "SUCCESS"
    /\ cli_pc = "exited" =>
          exit_code = IF cli_ret = "Err" THEN "FAILURE" ELSE cli_ret
    /\ cli_pc # "exited" => exit_code = "none"

\* the child exited successfully after three lines, one of them a suite-failed
\* event, and the process exited with FAILURE
C24_Witness ==
    /\ cli_pc = "exited"
    /\ Len(stdout) = MaxLines /\ SuiteFailedIn(MaxLines)
    /\ status
    /\ cli_ret = "FAILURE" /\ exit_code = "FAILURE"


\* ------------------------------------------------------------------ C25
\* C25: catch_unwind_future(f) polls f once per poll of its own while it has not
\* resolved and never afterwards, so never after f returned Ready or panicked;
\* after a poll it is Pending exactly if that poll of f returned Pending, Ok(v)
\* exactly if it returned Ready(v), and Err(payload) exactly if it panicked;
\* and the teardown after the .await runs only when f has been driven to its
\* end, whether f returned or panicked.
C25_CatchUnwindFuture ==
    cuf.state # "none" =>
        /\ fut_polls <= Len(fut)
        /\ fut_polls = 0 <=> cuf.state = "created"
        /\ cuf.state \in {"created", "Pending"} => cuf_polls = fut_polls
        /\ fut_polls > 0 =>
              LET last == fut[fut_polls]
              IN  /\ cuf.state = "Pending" <=> last.res = "Pending"
                  /\ cuf.state = "Ok" <=> last.res = "Ready"
                  /\ cuf.state = "Err" <=> last.res = "panic"
                  /\ cuf.state \in {"Ok", "Err"} => cuf.v = last.v
                  /\ \A i \in 1..(fut_polls - 1) : fut[i].res = "Pending"
        /\ after_await = "teardown" =>
              fut_polls = Len(fut) /\ cuf.state \in {"Ok", "Err"}

\* a future that panicked with payload 2 at its fifth poll: the wrapper resolved
\* to Err(2), was polled once more, and the teardown ran
C25_Witness ==
    /\ Len(fut) = MaxPending + 1
    /\ fut_polls = Len(fut)
    /\ cuf = Cuf("Err", 2)
    /\ cuf_polls = fut_polls + 1
    /\ after_await = "teardown"


\* ------------------------------------------------------------------ C26
\* C26: in runner::run, calls are made one at a time, and the calls made for a
\* group form one uninterrupted window of the run: it opens with the group's
\* before and closes with its after, every test run inside it is a test of that
\* group, and the calls made for one test are uninterrupted as well.
C26_GroupWindows ==
    /\ [](/\ \A i, k \in 1..Len(log) : \A j \in i..k :
                /\ (log[i].g # 0 /\ log[i].g = log[k].g) => log[j].g = log[i].g
                /\ (log[i].t # 0 /\ log[i].t = log[k].t) => log[j].t = log[i].t
          /\ \A i \in 1..Len(log) :
                /\ log[i].t # 0 => tests[log[i].t].module = log[i].g
                /\ log[i].k = "group_before" =>
                      \A j \in 1..(i - 1) : log[j].g # log[i].g
                /\ log[i].k = "group_after" =>
                      \A j \in (i + 1)..Len(log) : log[j].g # log[i].g)
    /\ [][log' = log \/ \E e \in {log'[Len(log')]} : log' = Append(log, e)]_vars

\* a run returned after the windows of two groups with all four hooks, three tests
\* in all, between suite hooks
C26_Witness ==
    /\ pc = "returned"
    /\ Len(results) = MaxTests
    /\ \A n \in GroupNames :
          /\ Where("group_before", n, 0) # {} /\ Where("group_after", n, 0) # {}
          /\ \E i \in 1..Len(log) : log[i].g = n /\ log[i].k = "group_before_each"
    /\ EventsOfKind("suite_before") # <<>> /\ EventsOfKind("suite_after_each") # <<>>


PanickedInBefore(th) ==
    /\ th.status = "failed"
    /\ th.did # <<>>
    /\ th.did[Len(th.did)] = "group_before"

\* C28: in the generated code of a module with a before, fire-and-forget or
\* context-returning, once an invocation of the before body has panicked the
\* body is not started again: that invocation stays the only one.
C28_PanickedBeforeNotRestarted ==
    \A g \in GroupNames :
        (gcfg[g].before # "none" /\ \E th \in ThreadsOf(g) : PanickedInBefore(th))
            => Runs(g, "group_before") = 1


\* ------------------------------------------------------------------ C29
\* what test function th executed after its body
AfterBody(th) ==
    LET at == CHOOSE i \in 1..Len(th.did) : th.did[i] = "test_body"
    IN  SelectSeq(SubSeq(th.did, at + 1, Len(th.did)), LAMBDA k : k # "group_after")

\* C29: in the generated code of a module with an after, an after_each or the
\* suite opt-in, a panic of the body does not end the test function: it goes
\* on through after_each, the suite's after_each and the countdown, and ends
\* failed at the resume_unwind that follows them; a function that ends passed
\* had a body that returned, and ran the same teardown.
C29_PanicResumedAfterTeardown ==
    \A g \in GroupNames :
        NeedsCatch(gcfg[g]) =>
            \A th \in ThreadsOf(g) :
                /\ th.caught # "none" <=> Count(th, "test_body") = 1
                /\ Count(th, "test_body") <= 1
                /\ (th.caught = "err" /\ Stopped(th)) => th.status = "failed"
                /\ (th.caught = "err" /\ Live(th)) =>
                      (IsPrefix(AfterBody(th), Post(gcfg[g])) /\ Instr(g, th) # "catch_body")
                /\ (th.status = "failed" /\ Instr(g, th) = "resume") =>
                      (th.caught = "err" /\ AfterBody(th) = Post(gcfg[g]))
                /\ th.status = "passed" =>
                      (th.caught = "ok" /\ AfterBody(th) = Post(gcfg[g]))

\* a test function of a module with after, after_each and the suite opt-in whose
\* body panicked ran all its teardown, after included, and ended failed at the
\* resume_unwind; another one, whose body returned, ended passed
C29_Witness ==
    /\ gcfg[1].after /\ gcfg[1].after_each /\ gcfg[1].suite
    /\ \E th \in ThreadsOf(1) :
          /\ th.status = "failed" /\ Instr(1, th) = "resume" /\ th.caught = "err"
          /\ Count(th, "group_after_each") = 1 /\ Count(th, "suite_after_each") = 1
          /\ Count(th, "group_after") = 1
    /\ \E th \in ThreadsOf(1) : th.status = "passed" /\ th.caught = "ok"


\* ------------------------------------------------------------------ C30
\* test function th of module g is inside the suite before body
InSuiteBefore(g, th) == Live(th) /\ th.in_once /\ Instr(g, th) = "suite_before"

\* C30: in the generated code, with the test functions of the opted-in modules
\* on concurrent threads, the suite before body is started at most once in the
\* process, at most one function is ever inside it, and a function of an
\* opted-in module that has started its group's before, a before_each or its
\* body did so after that body had returned; in every interleaving.
C30_SuiteBeforeOnceFirst ==
    /\ SumOf(GroupNames, [g \in GroupNames |-> Runs(g, "suite_before")]) <= 1
    /\ SumOf(GroupNames, [g \in GroupNames |->
                 HowMany(g, LAMBDA th : InSuiteBefore(g, th))])
          = IF suite_once = "running" THEN 1 ELSE 0
    /\ \A g \in GroupNames :
          gcfg[g].suite =>
              \A th \in ThreadsOf(g) :
                  (\E i \in 1..Len(th.did) :
                      th.did[i] \in {"group_before", "suite_before_each",
                                     "group_before_each", "test_body"})
                      => /\ suite_once = "done"
                         /\ th.did[1] = "suite_before" =>
                               (th.did[2] # "suite_before" /\ ~InSuiteBefore(g, th))

\* two opted-in modules: the suite before body ran once, in a function of module
\* 2, and functions of both modules have since run their bodies
C30_Witness ==
    /\ \A g \in GroupNames : gcfg[g].suite
    /\ Runs(1, "suite_before") = 0 /\ Runs(2, "suite_before") = 1
    /\ \A g \in GroupNames : Runs(g, "test_body") >= 1
    /\ Runs(1, "group_before") = 1


\* ------------------------------------------------------------------ C31
\* the names that have a TestGroup registration or a test
NamesRegistered ==
    {groups[i].name : i \in 1..Len(groups)} \cup {tests[i].module : i \in 1..Len(tests)}

\* the names of S in ascending order
Ascending(S) == CHOOSE s \in Orders(S) : \A i, j \in 1..Len(s) : i < j => s[i] < s[j]

\* C31: in runner::run, once the plan is made the group order is the shuffle,
\* by the generator seeded with the seed, of the registered names in ascending
\* order: the same for every registration order of these groups and tests and
\* for every iteration order of the map; and every name with a TestGroup or a
\* test is in it exactly once.
C31_GroupOrderFromSeed ==
    pc \notin {"off", "seed", "collect", "plan", "panicked"} =>
        /\ group_names = Shuffle(Ascending(NamesRegistered), SeedFromU64(seed)).seq
        /\ Range(group_names) = NamesRegistered
        /\ Len(group_names) = Cardinality(NamesRegistered)

\* seed 1 puts group 2 ahead of group 1, here with group 2 registered first and
\* its test registered last
C31_Witness ==
    /\ seed = 1
    /\ group_names = <<2, 1>>
    /\ groups = <<AllHooks(2), AllHooks(1)>>
    /\ Len(tests) = 2 /\ tests[1].module = 1 /\ tests[2].module = 2
    /\ pc = "returned"


\* ------------------------------------------------------------------ C32
\* the suite hooks of kind k called for test t, in the order of the calls
SuiteHooksFor(k, t) == HooksIn(SelectSeq(log, LAMBDA e : e.k = k /\ e.t = t))

\* C32: in runner::run, the suite before_each hooks called for a test are, in
\* the order of the calls, a prefix of the registered ones in registration
\* order, and so are the suite after_each hooks: these are not reversed; the
\* former all precede the test's body and the latter all follow it; a test
\* with a TestResult has had every one of both kinds.
C32_SuiteEachHookOrder ==
    \A t \in 1..Len(tests) :
        /\ IsPrefix(SuiteHooksFor("suite_before_each", t), suite_before_eachs)
        /\ IsPrefix(SuiteHooksFor("suite_after_each", t), suite_after_eachs)
        /\ \A i, j \in StepsOf(t) :
              /\ (log[i].k = "suite_before_each" /\ log[j].k = "test_body") => i < j
              /\ (log[i].k = "test_body" /\ log[j].k = "suite_after_each") => i < j
              /\ (log[i].k = log[j].k /\ log[i].k \in {"suite_before_each", "suite_after_each"}
                  /\ i < j) => log[i].h < log[j].h
        /\ Recorded(t) =>
              /\ SuiteHooksFor("suite_before_each", t) = suite_before_eachs
              /\ SuiteHooksFor("suite_after_each", t) = suite_after_eachs

\* a run returned in which every one of three tests was followed by the two
\* registered suite after_each hooks, the one registered first called first
C32_Witness ==
    /\ pc = "returned"
    /\ suite_hooks = <<"AfterEach", "AfterEach">>
    /\ Len(results) = MaxTests
    /\ \A t \in 1..Len(tests) : SuiteHooksFor("suite_after_each", t) = <<1, 2>>


\* ------------------------------------------------------------------ C33
\* the SuiteResults of a run: the one built from the results recorded so far,
\* and the one run() returned
SuiteResults == {[results |-> results, seed |-> seed], returned}

\* C33: for every SuiteResult, passed() + failed() is the number of results,
\* and all_passed() holds exactly when failed() is 0; so it holds for a
\* SuiteResult without results.
C33_SuiteResultCounts ==
    \A r \in SuiteResults :
        /\ passed(r) + failed(r) = Len(r.results)
        /\ all_passed(r) <=> failed(r) = 0
        /\ r.results = <<>> => all_passed(r)

\* run() returned a SuiteResult of three results, one passed and two failed; the
\* SuiteResult it started from had none
C33_Witness ==
    /\ pc = "returned"
    /\ Len(returned.results) = 3
    /\ passed(returned) = 1 /\ failed(returned) = 2 /\ ~all_passed(returned)
    /\ all_passed(NoResult)


\* ------------------------------------------------------------------ C34
\* the numbers of the first k lines of the stream that parse as events, ascending
Parsed(k) == SelectSeq([i \in 1..k |-> i], LAMBDA i : from_str(stdout[i]).ok)

\* the formatter method for a line of the stream
MethodFor(line) ==
    CASE line.type = "suite" /\ line.event = "started" -> "suite_started"
      [] line.type = "suite" /\ line.event = "ok" -> "suite_finished_ok"
      [] line.type = "suite" /\ line.event = "failed" -> "suite_finished_failed"
      [] OTHER -> "test_" \o (IF line.event = "ok" THEN "passed" ELSE line.event)

\* C34: after run() has consumed any number of lines, the formatter callbacks it
\* has made are exactly one for each consumed line that parses as a suite or
\* test event, the method of that event, in the order of the lines, and the
\* formatter has received exactly these; the failure flag is set exactly when
\* one of these lines is a suite-failed event; the turn of the loop that
\* consumes a line that does not parse changes neither the formatter nor the
\* flag nor the callbacks made.
C34_OneCallbackPerEvent ==
    /\ [](cli_pc # "off" =>
            /\ Len(calls) = Len(Parsed(read))
            /\ \A i \in 1..Len(calls) :
                  /\ calls[i].line = Parsed(read)[i]
                  /\ calls[i].cb = MethodFor(stdout[calls[i].line])
            /\ received = [i \in 1..Len(calls) |-> [cb |-> calls[i].cb, name |-> calls[i].line]]
            /\ any_failure <=> SuiteFailedIn(read))
    /\ [][(cli_pc # "off" /\ read' = read + 1 /\ ~from_str(stdout[read + 1]).ok)
            => UNCHANGED <<fmtVars, any_failure, calls>>]_vars

\* run() has read three lines, the second of them no event, called the
\* formatter for the first and the third, in this order, and returned
C34_Witness ==
    /\ cli_pc = "exited"
    /\ read = 3
    /\ ~from_str(stdout[2]).ok
    /\ Len(calls) = 2 /\ calls[1].line = 1 /\ calls[2].line = 3
    /\ calls[1].cb = "test_failed" /\ calls[2].cb = "suite_finished_failed"
    /\ Len(received) = 2 /\ w # <<>>
    /\ any_failure


\* ------------------------------------------------------------------ C35
\* the names of the test-failed events among the callbacks rs, in arrival order
FailedNames(rs) ==
    LET fs == SelectSeq(rs, LAMBDA r : r.cb = "test_failed")
    IN  [i \in 1..Len(fs) |-> fs[i].name]

\* the names of the failures replayed in the tokens ts, in the order written
Replayed(ts) ==
    LET fs == SelectSeq(ts, LAMBDA t : t.t = "failure")
    IN  [i \in 1..Len(fs) |-> fs[i].n]

\* the callback of this step, if it is one of cbs
Receives(cbs) ==
    /\ Len(received') = Len(received) + 1
    /\ received'[Len(received')].cb \in cbs

\* C35: in each of the three formatters the captured failures are, after any
\* sequence of callbacks, exactly the test-failed events received since the
\* formatter was created, in arrival order; no callback removes or reorders
\* entries, suite_started and suite_finished leave the list as it is, and a
\* suite_finished that returns Ok has replayed every failure received since
\* creation, those of earlier suites included.
C35_FailuresAppendOnly ==
    /\ [](formatter \in Formatters =>
            failures = [i \in 1..Len(FailedNames(received)) |->
                           FailedTest(FailedNames(received)[i])])
    /\ [][/\ IsPrefix(failures, failures')
          /\ Receives({"suite_started", "suite_finished_ok", "suite_finished_failed"})
                => failures' = failures
          /\ (Receives({"suite_finished_ok", "suite_finished_failed"}) /\ fmt_ret' = "Ok")
                => Replayed(SubSeq(w', Len(w) + 1, Len(w'))) = FailedNames(received')]_vars

\* two suites with one failure each: the second suite_finished has replayed
\* the failure of the first suite before that of the second
C35_Witness ==
    /\ Len(received) = 4
    /\ received[1] = [cb |-> "test_failed", name |-> 1]
    /\ received[2].cb = "suite_finished_failed"
    /\ received[3] = [cb |-> "test_failed", name |-> 2]
    /\ received[4].cb = "suite_finished_failed"
    /\ fmt_ret = "Ok"
    /\ failures = <<FailedTest(1), FailedTest(2)>>
    /\ SubSeq(w, Len(w) - 2, Len(w))
          = <<Token("Failures:", 0), Token("failure", 1), Token("failure", 2)>>


\* ------------------------------------------------------------------ C36
\* k is a positive multiple of c; 0 has none
PositiveMultiple(k, c) == \E m \in 1..k : k = m * c

\* the callbacks that end in self.emit_dot
Dots == {"test_passed", "test_failed", "test_ignored"}

\* C36: for every column count c >= 0, c = 0 included, emit_dot of the boring
\* and of the pride formatter does the same: a call returns Ok or the error of
\* a write, never panics, and a call that returns Ok has incremented dot_count
\* by one and has written the dot, preceded by a line break exactly when the
\* index of the dot is a positive multiple of c.
C36_EmitDotForAllCols ==
    [][(formatter \in {"boring", "pride"} /\ Receives(Dots)) =>
          /\ fmt_ret' \in {"Ok", "Err"}
          /\ fmt_ret' = "Ok" =>
                /\ dot_count' = dot_count + 1
                /\ Len(w') = Len(w) + (IF PositiveMultiple(dot_count, cols) THEN 2 ELSE 1)
                /\ w'[Len(w')].t \in {".", "X", "*"} /\ w'[Len(w')].n = dot_count
                /\ PositiveMultiple(dot_count, cols) => w'[Len(w) + 1] = Token("\n", dot_count)]_vars

====
